---- MODULE Spec2Model ----
(***************************************************************************)
(* Perizia Analyzer: document intake pipeline.                             *)
(*                                                                         *)
(*   SpecExtract  extractPdfText, the three-engine text extraction chain   *)
(*   SpecOcr      visionOcrPages with retryOn429, ocrOnePage, ocrTwoPages  *)
(*   SpecRoute    POST /api/analyze (handleRequest, withRetry, deleteFile) *)
(*   SpecRender   renderPdfPages and cleanupTempDir                        *)
(*   SpecPipeline runPipeline invocations on the jobQueue singleton        *)
(*                                                                         *)
(* Each specification runs one component; the variables of the other       *)
(* components keep their initial values.                                   *)
(***************************************************************************)
EXTENDS Integers, Sequences, FiniteSets, TLC

VARIABLES
    \* ---- extract-pdf-text.ts ----
    pdfParseLoaded,   \* _pdfParse !== null
    pdfjsLoaded,      \* _pdfjsLib !== null
    buffer,           \* the bytes handed to extractPdfText
    ePc,              \* position inside extractPdfText
    errors,           \* the local errors[] array
    eText1,           \* engine 1's text and page count when it was too short
    eCalls,           \* library calls made so far, with what each produced
    eResult,          \* the PdfExtractionResult returned
    \* ---- ocrVision.ts ----
    oPages,           \* the pages handed to visionOcrPages
    oPc,              \* position inside visionOcrPages / retryOn429
    oResults,         \* the results array
    toProcess,        \* the non-blank pages that carry image data
    oI,               \* loop index i of the batch loop
    oAttempt,         \* retryOn429's attempt counter
    oSleepMs,         \* the delay retryOn429 is sleeping for
    oErr,             \* the error the latest completion call threw, if it threw
    oRequest,         \* the latest request given to chat.completions.create
    oInvocations,     \* completion calls issued for the latest batch
    oSent,            \* page numbers that were part of a completion call
    oRaw,             \* rawText of the call that has just succeeded
    \* ---- app/api/analyze/route.ts ----
    hasApiKey,        \* process.env.OPENAI_API_KEY is set
    rForm,            \* what req.formData() gives
    rFileSize,        \* file.size
    rSdk,             \* which delete methods client.files has
    rPc,              \* position inside handleRequest / withRetry
    rUploaded,        \* the upload to the Files API succeeded
    rAborted,         \* controller.signal.aborted
    rTimer,           \* the timeout timer is armed
    rAttempt,         \* withRetry's attempt counter
    rSleepMs,         \* the delay withRetry is sleeping for
    rInvocations,     \* responses.create calls issued
    rRequest,         \* the latest request given to responses.create
    rErr,             \* the error caught at line 374
    rRawText,         \* rawText
    rDeleted,         \* delete calls issued for the uploaded file
    rResponse,        \* the HTTP response returned
    \* ---- pdfRender.ts ----
    dOpts,            \* opts.pageList and opts.maxPages
    dPc,              \* position inside renderPdfPages
    dDir,             \* the directory perizia-{docId} exists
    dFiles,           \* pages whose page-N.jpg exists in that directory
    dTotal,           \* totalDocPages
    dRequested,       \* pagesRequested
    dIdx,             \* position of the page loop in pagesRequested
    dPages,           \* the pages array
    \* ---- library functions (text quality, section detection, amounts) ----
    libFn,            \* the function that is called
    libArg,           \* its arguments
    libDone,          \* the call has returned
    libRet,           \* its return value
    \* ---- job-queue.ts and pipeline.ts ----
    jobs,             \* JobQueue.jobs, the Map from job id to Job
    pPc,              \* position of each runPipeline invocation
    pDoc,             \* the documentId each invocation was given
    pHasKey           \* process.env.OPENAI_API_KEY is set

extractVars == <<pdfParseLoaded, pdfjsLoaded, buffer, ePc, errors, eText1, eCalls, eResult>>

ocrVars == <<oPages, oPc, oResults, toProcess, oI, oAttempt, oSleepMs, oErr,
             oRequest, oInvocations, oSent, oRaw>>

routeVars == <<hasApiKey, rForm, rFileSize, rSdk, rPc, rUploaded, rAborted, rTimer,
               rAttempt, rSleepMs, rInvocations, rRequest, rErr, rRawText, rDeleted,
               rResponse>>

renderVars == <<dOpts, dPc, dDir, dFiles, dTotal, dRequested, dIdx, dPages>>

libVars == <<libFn, libArg, libDone, libRet>>

jobVars == <<jobs, pPc, pDoc, pHasKey>>

vars == <<extractVars, ocrVars, routeVars, renderVars, libVars, jobVars>>

----------------------------------------------------------------------------
(* Bounds                                                                  *)

MaxCore == 2          \* short trimmed text lengths 0..MaxCore are enumerated
MaxWs == 1            \* surrounding whitespace of a text, 0..MaxWs characters
MaxDocPages == 2      \* page counts reported by an engine, 0..MaxDocPages
MaxPageNo == 3        \* page numbers of rendered pages, 1..MaxPageNo
MaxTokens == 3        \* longest model response, in tokens
RandomSteps == 2      \* Math.random() takes the values k / RandomSteps
ShortChunk == 10      \* characters of a short run of transcribed text
LongChunk == 50       \* characters of a long run of transcribed text
MaxTotal == 3         \* pages of a document, 1..MaxTotal
MaxRenderPages == 2   \* opts.maxPages, 1..MaxRenderPages
MaxSectionPages == 2  \* pages of a parsed document, 1..MaxSectionPages
MaxHits == 3          \* keyword occurrences in a document
MaxSections == 3      \* candidate windows of a field
MaxAmountLen == 5     \* characters of a generated amount string
MaxKeywords == 5      \* matched keywords of a candidate window
MaxCandidates == 5    \* candidate windows calculateConfidence is told of
MaxRuns == 2          \* runPipeline invocations that may overlap

MaxFieldSections == 4 \* candidate windows a field extractor is given

----------------------------------------------------------------------------
(* Generic helpers                                                         *)

Max(a, b) == IF a >= b THEN a ELSE b

Min(a, b) == IF a <= b THEN a ELSE b

Last(s) == s[Len(s)]

\* Array.prototype.join(sep): the elements with the separator between them.
RECURSIVE Join(_, _)
Join(s, sep) ==
    IF Len(s) = 0 THEN <<>>
    ELSE IF Len(s) = 1 THEN <<s[1]>>
    ELSE <<s[1], sep>> \o Join(Tail(s), sep)

\* Buffer.slice(0, n): at most the first n bytes.
Slice(buf, n) == SubSeq(buf, 1, Min(n, Len(buf)))

\* F(v), with v evaluated once whatever the number of its uses in F.
Let(v, F(_)) == CHOOSE r \in {F(x) : x \in {v}} : TRUE

----------------------------------------------------------------------------
(* extract-pdf-text.ts: extractPdfText                                     *)

MIN_CHARS == 200

PDF_MAGIC == <<"%", "P", "D", "F", "-">>

\* Buffers whose first bytes are or are not the PDF magic header, including
\* buffers shorter than the header.
Buffers ==
    { <<"%", "P", "D", "F", "-", "1", ".", "7">>,
      <<"%", "P", "D", "F", "-">>,
      <<"%", "P", "D", "F">>,
      <<"%", "P", "D", "F", "+", "1">>,
      <<" ", "%", "P", "D", "F", "-">>,
      <<"P", "K", "3", "4", "x", "y">>,
      <<>> }

\* A text is its trimmed content (core characters) plus the whitespace
\* around it (ws characters).
Text(ws, core) == [ws |-> ws, core |-> core]

EmptyText == Text(0, 0)

CoreLens == (0..MaxCore) \cup {MIN_CHARS - 1, MIN_CHARS, MIN_CHARS + 1}

Texts == {Text(w, c) : w \in 0..MaxWs, c \in CoreLens}

\* text.length
TextLen(t) == t.ws + t.core

\* text.trim().length
TrimLen(t) == t.core

NoError == <<>>

NoResult == [text |-> EmptyText, pages |-> 0, engine |-> "none", error |-> NoError]

EngineResult(t, n, eng) == [text |-> t, pages |-> n, engine |-> eng, error |-> NoError]

\* magic !== '%PDF-' is false
MagicOkFirstFour(buf) == Slice(buf, 4) = Slice(PDF_MAGIC, 4)

MagicOk(buf) == Slice(buf, 5) = PDF_MAGIC

InvalidPdfResult ==
    [text |-> EmptyText, pages |-> 0, engine |-> "failed",
     error |-> <<"Il file non e' un PDF valido">>]

\* The final return of extractPdfText: errors.join(' | ').
AllFailedResultLastOnly(errs) ==
    [text |-> EmptyText, pages |-> 0, engine |-> "failed",
     error |-> IF Len(errs) = 0 THEN <<>> ELSE <<Last(errs)>>]

AllFailedResult(errs) ==
    [text |-> EmptyText, pages |-> 0, engine |-> "failed",
     error |-> Join(errs, " | ")]

\* fallback2 && fallback2.text.trim().length >= text.trim().length
PreferFallback2Always(t1, r2) == r2.engine # "none"

PreferFallback2(t1, r2) ==
    r2.engine # "none" /\ TrimLen(r2.text) >= TrimLen(t1)

CallRec(eng, at, out, t) == [engine |-> eng, at |-> at, out |-> out, text |-> t]

InitExtract ==
    /\ pdfParseLoaded \in BOOLEAN
    /\ pdfjsLoaded \in BOOLEAN
    /\ buffer \in Buffers
    /\ ePc = "start"
    /\ errors = <<>>
    /\ eText1 = NoResult
    /\ eCalls = <<>>
    /\ eResult = NoResult

\* Lines 67-78: the magic header check.
CheckMagic ==
    /\ ePc = "start"
    /\ IF MagicOk(buffer)
         THEN /\ ePc' = "engine1"
              /\ eResult' = eResult
         ELSE /\ ePc' = "done"
              /\ eResult' = InvalidPdfResult
    /\ UNCHANGED <<pdfParseLoaded, pdfjsLoaded, buffer, errors, eText1, eCalls>>
    /\ UNCHANGED <<ocrVars, routeVars, renderVars, libVars, jobVars>>

\* Lines 81-93 and 103-107: engine 1 up to the call of the first fallback.
Engine1 ==
    /\ ePc = "engine1"
    /\ IF ~pdfParseLoaded
         THEN \* throw new Error('pdf-parse not loaded'), caught at line 103
              /\ errors' = Append(errors, "pdf-parse-custom failed")
              /\ ePc' = "engine2"
              /\ UNCHANGED <<eText1, eCalls, eResult>>
         ELSE \/ \* parsePdf rejects
                 /\ errors' = Append(errors, "pdf-parse-custom failed")
                 /\ eCalls' = Append(eCalls, CallRec("pdf-parse-custom", "engine1", "threw", EmptyText))
                 /\ ePc' = "engine2"
                 /\ UNCHANGED <<eText1, eResult>>
              \/ \E t \in Texts, n \in 0..MaxDocPages :
                 /\ eCalls' = Append(eCalls, CallRec("pdf-parse-custom", "engine1", "text", t))
                 /\ IF TrimLen(t) >= MIN_CHARS
                      THEN /\ eResult' = EngineResult(t, n, "pdf-parse-custom")
                           /\ ePc' = "done"
                           /\ UNCHANGED <<errors, eText1>>
                      ELSE /\ errors' = Append(errors, "pdf-parse-custom: testo troppo corto")
                           /\ eText1' = EngineResult(t, n, "pdf-parse-custom")
                           /\ ePc' = "fallback2"
                           /\ eResult' = eResult
    /\ UNCHANGED <<pdfParseLoaded, pdfjsLoaded, buffer>>
    /\ UNCHANGED <<ocrVars, routeVars, renderVars, libVars, jobVars>>

\* tryPdfParseDefault (lines 128-149): the result, or NoResult for null,
\* together with the errors array and the call log after the call.
TryPdfParseDefault(at, errs, calls) ==
    IF ~pdfParseLoaded
      THEN { [res |-> NoResult,
              errs |-> Append(errs, "pdf-parse-default: pdf-parse not loaded"),
              calls |-> calls] }
      ELSE { [res |-> NoResult,
              errs |-> Append(errs, "pdf-parse-default failed"),
              calls |-> Append(calls, CallRec("pdf-parse-default", at, "threw", EmptyText))] }
           \cup
           { [res |-> EngineResult(t, n, "pdf-parse-default"),
              errs |-> errs,
              calls |-> Append(calls, CallRec("pdf-parse-default", at, "text", t))]
               : t \in Texts, n \in 0..MaxDocPages }

\* Lines 95-102: the fallback tried because engine 1's text was too short.
Fallback2 ==
    /\ ePc = "fallback2"
    /\ \E o \in TryPdfParseDefault("fallback2", errors, eCalls) :
         /\ errors' = o.errs
         /\ eCalls' = o.calls
         /\ IF PreferFallback2(eText1.text, o.res)
              THEN /\ eResult' = o.res
                   /\ ePc' = "done"
              ELSE IF TrimLen(eText1.text) > 0
                     THEN /\ eResult' = eText1
                          /\ ePc' = "done"
                     ELSE /\ eResult' = eResult
                          /\ ePc' = "engine2"
    /\ UNCHANGED <<pdfParseLoaded, pdfjsLoaded, buffer, eText1>>
    /\ UNCHANGED <<ocrVars, routeVars, renderVars, libVars, jobVars>>

\* Lines 110-111: engine 2.
Engine2 ==
    /\ ePc = "engine2"
    /\ \E o \in TryPdfParseDefault("engine2", errors, eCalls) :
         /\ errors' = o.errs
         /\ eCalls' = o.calls
         /\ IF o.res.engine # "none"
              THEN /\ eResult' = o.res
                   /\ ePc' = "done"
              ELSE /\ eResult' = eResult
                   /\ ePc' = "engine3"
    /\ UNCHANGED <<pdfParseLoaded, pdfjsLoaded, buffer, eText1>>
    /\ UNCHANGED <<ocrVars, routeVars, renderVars, libVars, jobVars>>

\* tryPdfjsDirect (lines 153-201). The page texts are trimmed before they
\* are joined, so the text carries no surrounding whitespace.
TryPdfjsDirect(errs, calls) ==
    IF ~pdfjsLoaded
      THEN { [res |-> NoResult,
              errs |-> Append(errs, "pdfjs-direct: pdfjs-dist not loaded"),
              calls |-> calls] }
      ELSE { [res |-> NoResult,
              errs |-> Append(errs, "pdfjs-direct failed"),
              calls |-> Append(calls, CallRec("pdfjs-direct", "engine3", "threw", EmptyText))] }
           \cup
           { [res |-> EngineResult(Text(0, c), n, "pdfjs-direct"),
              errs |-> errs,
              calls |-> Append(calls, CallRec("pdfjs-direct", "engine3", "text", Text(0, c)))]
               : c \in CoreLens, n \in 0..MaxDocPages }

\* Lines 114-123: engine 3 and the final 'failed' result.
Engine3 ==
    /\ ePc = "engine3"
    /\ \E o \in TryPdfjsDirect(errors, eCalls) :
         /\ errors' = o.errs
         /\ eCalls' = o.calls
         /\ eResult' = IF o.res.engine # "none" THEN o.res ELSE AllFailedResult(o.errs)
         /\ ePc' = "done"
    /\ UNCHANGED <<pdfParseLoaded, pdfjsLoaded, buffer, eText1>>
    /\ UNCHANGED <<ocrVars, routeVars, renderVars, libVars, jobVars>>

ExtractActions ==
    \/ CheckMagic
    \/ Engine1
    \/ Fallback2
    \/ Engine2
    \/ Engine3

----------------------------------------------------------------------------
(* Claims about extractPdfText                                             *)

\* The first five bytes of the buffer are '%PDF-'.
HeaderIsPdf ==
    /\ Len(buffer) >= 5
    /\ \A i \in 1..5 : buffer[i] = PDF_MAGIC[i]

\* The texts the engines produced during this call.
YieldedCalls == {i \in 1..Len(eCalls) : eCalls[i].out = "text"}

\* C1: a non-empty text obtained from an engine is never given up for an
\* empty or 'failed' result: the returned text is at least as long (trimmed)
\* as every text an engine produced; and when engine 1 produced a short
\* non-empty text and the fallback engine produced text too, the longer of
\* the two is returned.
C1_PartialTextNeverDiscarded ==
    ePc = "done" =>
      /\ \A i \in YieldedCalls :
           TrimLen(eCalls[i].text) > 0 =>
             /\ eResult.engine \notin {"failed", "none"}
             /\ TrimLen(eResult.text) > 0
             /\ TrimLen(eResult.text) >= TrimLen(eCalls[i].text)
      /\ ( /\ Len(eCalls) = 2
           /\ eCalls[1].engine = "pdf-parse-custom" /\ eCalls[1].out = "text"
           /\ TrimLen(eCalls[1].text) > 0
           /\ eCalls[2].at = "fallback2" /\ eCalls[2].out = "text" )
         => /\ TrimLen(eResult.text)
                 = Max(TrimLen(eCalls[1].text), TrimLen(eCalls[2].text))
            /\ eResult.text = IF TrimLen(eCalls[2].text) >= TrimLen(eCalls[1].text)
                                THEN eCalls[2].text ELSE eCalls[1].text
            /\ eResult.engine = IF TrimLen(eCalls[2].text) >= TrimLen(eCalls[1].text)
                                  THEN "pdf-parse-default" ELSE "pdf-parse-custom"

\* Engine 1 gave a short non-empty text, the fallback gave an empty one, and
\* engine 1's text was returned.
C1_Witness ==
    /\ ePc = "done"
    /\ Len(eCalls) = 2
    /\ eCalls[1].out = "text" /\ TrimLen(eCalls[1].text) = 2
    /\ eCalls[2].out = "text" /\ TextLen(eCalls[2].text) = 0
    /\ eResult.engine = "pdf-parse-custom"
    /\ TrimLen(eResult.text) = 2

\* Every strategy yielded nothing: no call produced a non-empty text.
NothingYielded ==
    /\ ePc = "done"
    /\ HeaderIsPdf
    /\ \A i \in 1..Len(eCalls) : eCalls[i].out = "threw" \/ TextLen(eCalls[i].text) = 0

\* C2 as stated: whenever each engine either throws or produces empty text,
\* the result is 'failed' with empty text and the joined error trail.
C2_FailedWhenNothingYielded ==
    NothingYielded =>
      /\ eResult.engine = "failed"
      /\ TextLen(eResult.text) = 0
      /\ Len(eResult.error) = 2 * Len(errors) - 1

\* Every engine threw or was not loaded.
AllEnginesThrew ==
    /\ ePc = "done"
    /\ HeaderIsPdf
    /\ YieldedCalls = {}

\* C2 amended: when every engine throws (or is not loaded), the result is
\* 'failed' with empty text and 0 pages, and its error is the errors of
\* engine 1, engine 2 and engine 3, in this order, joined by ' | '.
C2_FailedWhenAllThrow ==
    AllEnginesThrew =>
      /\ eResult.engine = "failed"
      /\ TextLen(eResult.text) = 0
      /\ eResult.pages = 0
      /\ Len(errors) = 3
      /\ errors[1] = "pdf-parse-custom failed"
      /\ errors[2] \in {"pdf-parse-default failed", "pdf-parse-default: pdf-parse not loaded"}
      /\ errors[3] \in {"pdfjs-direct failed", "pdfjs-direct: pdfjs-dist not loaded"}
      /\ eResult.error = <<errors[1], " | ", errors[2], " | ", errors[3]>>

\* All three libraries were called and all three threw.
C2_Witness ==
    /\ ePc = "done"
    /\ Len(eCalls) = 3
    /\ \A i \in 1..3 : eCalls[i].out = "threw"
    /\ eResult.engine = "failed"
    /\ Len(eResult.error) = 5

\* C3: a buffer that does not start with '%PDF-' fails at once: engine
\* 'failed', empty text, 0 pages, an error, and no engine is ever invoked.
C3_BadMagicFailsImmediately ==
    ~HeaderIsPdf =>
      /\ ePc \in {"start", "done"}
      /\ eCalls = <<>>
      /\ errors = <<>>
      /\ ePc = "done" =>
           /\ eResult.engine = "failed"
           /\ TextLen(eResult.text) = 0
           /\ eResult.pages = 0
           /\ eResult.error # <<>>

\* A buffer starting with '%PDF+' was rejected.
C3_Witness ==
    /\ ePc = "done"
    /\ Len(buffer) >= 5
    /\ buffer[5] = "+"
    /\ eResult.engine = "failed"
    /\ eCalls = <<>>

----------------------------------------------------------------------------
(* ocrVision.ts: retryOn429, parseBatchResponse, ocrOnePage, ocrTwoPages,  *)
(* interpretOcrText, visionOcrPages                                        *)

MAX_RETRIES == 3

MIN_OCR_CHARS == 50

MarkerLen == 14      \* '===PAGINA N===' for a one-digit N

BlankLen == 5        \* 'BLANK'

PageNos == 1..MaxPageNo

\* A PageRenderResult as renderPdfPages builds it: a rendered image (blank
\* or not), or the placeholder of a page whose rendering threw.
RenderedImage(pn, blank) ==
    [pageNumber |-> pn, base64 |-> TRUE, mimeType |-> "image/jpeg",
     isBlank |-> blank, renderError |-> FALSE]

RenderPlaceholder(pn) ==
    [pageNumber |-> pn, base64 |-> FALSE, mimeType |-> "image/jpeg",
     isBlank |-> TRUE, renderError |-> TRUE]

PageRecs ==
    {RenderedImage(pn, b) : pn \in PageNos, b \in BOOLEAN}
      \cup {RenderPlaceholder(pn) : pn \in PageNos}

Reverse(l) == [i \in 1..Len(l) |-> l[Len(l) + 1 - i]]

\* Lists of rendered pages with distinct page numbers, in ascending order
\* (selectDefaultPages) or, for a caller's own page list, in descending order.
AscendingLists ==
    UNION { {l \in [1..n -> PageRecs] :
               \A i \in 1..n, j \in 1..n : i < j => l[i].pageNumber < l[j].pageNumber}
            : n \in 0..MaxPageNo }

PageLists == AscendingLists \cup {Reverse(l) : l \in AscendingLists}

\* A model response is a sequence of tokens: the marker of the first or of
\* the second page of the call, the word BLANK, a short or a long run of
\* transcribed text.
Tokens == {"M1", "M2", "B", "S", "L"}

Responses == UNION {[1..n -> Tokens] : n \in 0..MaxTokens}

TokLen(t) ==
    CASE t \in {"M1", "M2"} -> MarkerLen
      [] t = "B" -> BlankLen
      [] t = "S" -> ShortChunk
      [] t = "L" -> LongChunk

\* text.length
RECURSIVE Chars(_)
Chars(toks) == IF toks = <<>> THEN 0 ELSE TokLen(Head(toks)) + Chars(Tail(toks))

\* What a failed completion call throws: the HTTP status of an APIError (0
\* for an error that is not an APIError) and whether its message contains
\* '429' or, in lower case, 'rate'.
Errs == [status : {429, 500, 0}, msg429 : BOOLEAN, msgRate : BOOLEAN]

NoErr == [status |-> -1, msg429 |-> FALSE, msgRate |-> FALSE]

\* retryOn429, lines 64-66
Is429(e) == e.status = 429 \/ e.msg429

\* ocrOnePage / ocrTwoPages, lines 164 and 226
IsRL(e) == e.msg429 \/ e.msgRate

RECURSIVE Pow2(_)
Pow2(n) == IF n = 0 THEN 1 ELSE 2 * Pow2(n - 1)

\* Math.pow(2, attempt + 1) * 1000
BaseMsFromOne(attempt) == Pow2(attempt) * 1000

BaseMs(attempt) == Pow2(attempt + 1) * 1000

\* baseMs * (0.8 + Math.random() * 0.4) with Math.random() = k / RandomSteps,
\* in whole milliseconds
JitterMs(baseMs, k) == (baseMs * (800 * RandomSteps + 400 * k)) \div (1000 * RandomSteps)

\* is429 && attempt < maxRetries
ShouldRetry(e, attempt) == Is429(e) /\ attempt < MAX_RETRIES

\* The catch blocks at lines 162 and 224 catch every error of the call.
CatchesOnlyRateLimit(e) == IsRL(e)

Catches(e) == TRUE

\* String.prototype.indexOf(tok, from) on token sequences; 0 when absent.
IndexOfFrom(s, tok, from) ==
    LET hits == {i \in from..Len(s) : s[i] = tok}
    IN  IF hits = {} THEN 0 ELSE CHOOSE i \in hits : \A j \in hits : i <= j

MarkerOf(k) == IF k = 1 THEN "M1" ELSE "M2"

\* parseBatchResponse for a call of n pages: for each page of the call
\* whether the map has an entry, and the entry.
ParseBatchResponseWholeText(raw, n) == [k \in 1..n |-> [found |-> TRUE, text |-> raw]]

ParseBatchResponse(raw, n) ==
    [k \in 1..n |->
       LET idx == IndexOfFrom(raw, MarkerOf(k), 1)
       IN  IF idx = 0
             THEN IF n = 1 THEN [found |-> TRUE, text |-> raw]
                           ELSE [found |-> FALSE, text |-> <<>>]
             ELSE LET contentStart == idx + 1
                      nextIdx == IF k < n THEN IndexOfFrom(raw, MarkerOf(k + 1), contentStart)
                                          ELSE 0
                      contentEnd == IF nextIdx # 0 THEN nextIdx - 1 ELSE Len(raw)
                  IN  [found |-> TRUE, text |-> SubSeq(raw, contentStart, contentEnd)]]

\* An OcrPage: page, status, and whether text (with chars and preview) is
\* non-empty.
OcrPage(pn, status, chars) == [page |-> pn, status |-> status, hasText |-> chars > 0]

\* interpretOcrText, lines 254-281
InterpretOcrText(pn, raw) ==
    IF raw = <<>> \/ raw = <<"B">> \/ raw[1] = "B"
      THEN OcrPage(pn, "empty", 0)
      ELSE OcrPage(pn, IF Chars(raw) < MIN_OCR_CHARS THEN "empty" ELSE "ok", Chars(raw))

\* ocrTwoPages after a successful call, lines 234-247
TwoPageResults(batch, raw) ==
    LET parsed == ParseBatchResponse(raw, 2)
    IN  [k \in 1..2 |->
           LET text == IF parsed[k].found THEN parsed[k].text ELSE <<>>
           IN  IF text = <<>> THEN OcrPage(batch[k].pageNumber, "empty", 0)
                              ELSE InterpretOcrText(batch[k].pageNumber, text)]

\* The results of a call that succeeded with response raw.
SuccessResults(batch, raw) ==
    IF Len(batch) = 2 THEN TwoPageResults(batch, raw)
                      ELSE <<InterpretOcrText(batch[1].pageNumber, raw)>>

\* The results of a call that threw e, lines 162-173 and 224-232.
FailureResults(batch, e) ==
    [k \in 1..Len(batch) |->
       OcrPage(batch[k].pageNumber, IF IsRL(e) THEN "rate_limited" ELSE "failed", 0)]

\* dataUrl.startsWith('data:image/')
DataUrlOk(p) == p.mimeType \in {"image/jpeg", "image/png"}

\* Lines 302-326: the results of the pages that are not sent to the model.
RECURSIVE UnsentResults(_)
UnsentResults(ps) ==
    IF ps = <<>> THEN <<>>
    ELSE LET p == Head(ps)
         IN  (IF p.isBlank THEN <<OcrPage(p.pageNumber, "skipped_blank", 0)>>
              ELSE IF ~p.base64 THEN <<OcrPage(p.pageNumber, "failed", 0)>>
              ELSE <<>>) \o UnsentResults(Tail(ps))

ProcessableIfImage(p) == p.base64

Processable(p) == ~p.isBlank /\ p.base64

\* results.sort((a, b) => a.page - b.page): a stable insertion sort.
RECURSIVE InsertByPage(_, _)
InsertByPage(r, sorted) ==
    IF sorted = <<>> THEN <<r>>
    ELSE IF r.page < Head(sorted).page THEN <<r>> \o sorted
    ELSE <<Head(sorted)>> \o InsertByPage(r, Tail(sorted))

SortByPageNone(rs) == rs

RECURSIVE SortByPage(_)
SortByPage(rs) ==
    IF rs = <<>> THEN <<>>
    ELSE InsertByPage(rs[Len(rs)], SortByPage(SubSeq(rs, 1, Len(rs) - 1)))

\* toProcess.slice(i, i + 2)
BatchAt(i) == SubSeq(toProcess, i + 1, Min(i + 2, Len(toProcess)))

PageNumbersOf(batch) == {batch[k].pageNumber : k \in 1..Len(batch)}

\* The request of ocrOnePage / ocrTwoPages: model, messages with the page
\* images; no request options, hence no cancellation signal.
OcrRequest(batch) ==
    [pages |-> [k \in 1..Len(batch) |-> batch[k].pageNumber],
     model |-> "gpt-4o-mini", signal |-> FALSE]

NoRequest == [pages |-> <<>>, model |-> "none", signal |-> FALSE]

InitOcr ==
    /\ oPages \in PageLists
    /\ oPc = "start"
    /\ oResults = <<>>
    /\ toProcess = <<>>
    /\ oI = 0
    /\ oAttempt = 0
    /\ oSleepMs = 0
    /\ oErr = NoErr
    /\ oRequest = NoRequest
    /\ oInvocations = 0
    /\ oSent = {}
    /\ oRaw = <<>>

\* Lines 300-326: blank pages and pages without image data get their result
\* at once; the others are queued.
OcrSeparate ==
    /\ oPc = "start"
    /\ oResults' = UnsentResults(oPages)
    /\ toProcess' = SelectSeq(oPages, Processable)
    /\ oI' = 0
    /\ oPc' = "loop"
    /\ UNCHANGED <<oPages, oAttempt, oSleepMs, oErr, oRequest, oInvocations, oSent, oRaw>>
    /\ UNCHANGED <<extractVars, routeVars, renderVars, libVars, jobVars>>

\* Lines 329-337 with 128-138 / 187-196: the next batch enters retryOn429.
OcrStartBatch ==
    /\ oPc = "loop"
    /\ oI < Len(toProcess)
    /\ IF \A k \in 1..Len(BatchAt(oI)) : DataUrlOk(BatchAt(oI)[k])
         THEN oPc' = "call"
         ELSE oPc' = "rejected"
    /\ oAttempt' = 0
    /\ oInvocations' = 0
    /\ oErr' = NoErr
    /\ oRaw' = <<>>
    /\ UNCHANGED <<oPages, oResults, toProcess, oI, oSleepMs, oRequest, oSent>>
    /\ UNCHANGED <<extractVars, routeVars, renderVars, libVars, jobVars>>

\* Line 340: all batches done, the sorted results are returned.
OcrReturn ==
    /\ oPc = "loop"
    /\ oI >= Len(toProcess)
    /\ oResults' = SortByPage(oResults)
    /\ oPc' = "done"
    /\ oRaw' = <<>>
    /\ UNCHANGED <<oPages, toProcess, oI, oAttempt, oSleepMs, oErr, oRequest,
                   oInvocations, oSent>>
    /\ UNCHANGED <<extractVars, routeVars, renderVars, libVars, jobVars>>

\* One pass of retryOn429's loop body (lines 60-75) around the completion
\* call, and what ocrOnePage / ocrTwoPages do with its outcome.
OcrCall ==
    /\ oPc = "call"
    /\ LET batch == BatchAt(oI) IN
       /\ oRequest' = OcrRequest(batch)
       /\ oInvocations' = oInvocations + 1
       /\ oSent' = oSent \cup PageNumbersOf(batch)
       /\ \/ \E raw \in Responses :
               /\ oResults' = oResults \o SuccessResults(batch, raw)
               /\ oRaw' = raw
               /\ oErr' = NoErr
               /\ oI' = oI + 2
               /\ oPc' = "loop"
               /\ UNCHANGED <<oAttempt, oSleepMs>>
          \/ \E e \in Errs :
               /\ oErr' = e
               /\ oRaw' = <<>>
               /\ IF ShouldRetry(e, oAttempt)
                    THEN /\ \E k \in 0..(RandomSteps - 1) :
                              oSleepMs' = JitterMs(BaseMs(oAttempt), k)
                         /\ oPc' = "sleep"
                         /\ UNCHANGED <<oResults, oI, oAttempt>>
                    ELSE /\ UNCHANGED <<oAttempt, oSleepMs>>
                         /\ IF Catches(e)
                              THEN /\ oResults' = oResults \o FailureResults(batch, e)
                                   /\ oI' = oI + 2
                                   /\ oPc' = "loop"
                              ELSE /\ oPc' = "rejected"
                                   /\ UNCHANGED <<oResults, oI>>
    /\ UNCHANGED <<oPages, toProcess>>
    /\ UNCHANGED <<extractVars, routeVars, renderVars, libVars, jobVars>>

\* Lines 71-72: the sleep is over, the next attempt begins.
OcrWake ==
    /\ oPc = "sleep"
    /\ oAttempt' = oAttempt + 1
    /\ oSleepMs' = 0
    /\ oErr' = NoErr
    /\ oPc' = "call"
    /\ UNCHANGED <<oPages, oResults, toProcess, oI, oRequest, oInvocations, oSent, oRaw>>
    /\ UNCHANGED <<extractVars, routeVars, renderVars, libVars, jobVars>>

OcrActions ==
    \/ OcrSeparate
    \/ OcrStartBatch
    \/ OcrReturn
    \/ OcrCall
    \/ OcrWake

----------------------------------------------------------------------------
(* Claims about the Vision-OCR orchestrator                                *)

\* The results recorded for page pn.
ResultsOf(pn) == {k \in 1..Len(oResults) : oResults[k].page = pn}

\* The batch whose call has just ended with an error (the loop index has
\* already moved past it).
JustFailed == oPc = "loop" /\ oErr # NoErr

FailedBatch == SubSeq(toProcess, oI - 1, Min(oI, Len(toProcess)))

C6_OtherErrorsFailWithoutRetry ==
    /\ oPc = "sleep" => oErr.status = 429
    /\ (JustFailed /\ oErr.status # 429) =>
         \A k \in 1..Len(FailedBatch) :
           \A r \in ResultsOf(FailedBatch[k].pageNumber) : oResults[r].status = "failed"

\* C7 as stated, for the OCR calls: every completion request that is issued
\* carries a cancellation signal that enforces a timeout.
C7_OcrCallsCarrySignal ==
    oRequest # NoRequest => oRequest.signal

\* C8: visionOcrPages never rejects because of a failed completion call; the
\* failure is recorded as a status of the pages of that call, and all the
\* batches after it are still sent and get their results.
C8_FailuresAreData ==
    /\ oPc # "rejected"
    /\ JustFailed =>
         \A k \in 1..Len(FailedBatch) :
           /\ ResultsOf(FailedBatch[k].pageNumber) # {}
           /\ \A r \in ResultsOf(FailedBatch[k].pageNumber) :
                /\ oResults[r].status \in {"failed", "rate_limited"}
                /\ ~oResults[r].hasText
    /\ oPc = "done" =>
         /\ Len(oResults) = Len(oPages)
         /\ \A k \in 1..Len(toProcess) :
              /\ toProcess[k].pageNumber \in oSent
              /\ ResultsOf(toProcess[k].pageNumber) # {}

\* The call of the first batch failed, and the page of the second batch was
\* still transcribed.
C8_Witness ==
    /\ oPc = "done"
    /\ Len(toProcess) = 3
    /\ \A r \in ResultsOf(toProcess[1].pageNumber) : oResults[r].status = "failed"
    /\ \A r \in ResultsOf(toProcess[2].pageNumber) : oResults[r].status = "failed"
    /\ \A r \in ResultsOf(toProcess[3].pageNumber) : oResults[r].status = "ok"

\* The batch whose call has just returned a response.
JustSucceeded == oPc = "loop" /\ oInvocations > 0 /\ oErr = NoErr

HasToken(raw, tok) == \E i \in 1..Len(raw) : raw[i] = tok

\* C13: in a two-page batch a page whose marker is missing from the
\* response is 'empty' with no text; a single-page call whose response is
\* the BLANK sentinel or has fewer than 50 characters is 'empty'.
C13_MissingMarkerOrNearEmptyIsEmpty ==
    JustSucceeded =>
      LET batch == FailedBatch IN
        /\ Len(batch) = 2 =>
             \A k \in 1..2 :
               ~HasToken(oRaw, MarkerOf(k)) =>
                 \A r \in ResultsOf(batch[k].pageNumber) :
                   oResults[r].status = "empty" /\ ~oResults[r].hasText
        /\ (Len(batch) = 1 /\ (oRaw = <<"B">> \/ Chars(oRaw) < 50)) =>
             \A r \in ResultsOf(batch[1].pageNumber) : oResults[r].status = "empty"

\* A two-page response with the first page's marker and a long text but
\* without the second page's marker: the first page is 'ok', the second
\* 'empty' without text.
C13_Witness ==
    /\ JustSucceeded
    /\ Len(FailedBatch) = 2
    /\ oRaw = <<"M1", "L">>
    /\ \A r \in ResultsOf(FailedBatch[1].pageNumber) : oResults[r].status = "ok"
    /\ \A r \in ResultsOf(FailedBatch[2].pageNumber) :
         oResults[r].status = "empty" /\ ~oResults[r].hasText

\* C11: visionOcrPages returns exactly one result for each input page, and
\* the returned list is in ascending order of page number, whatever the
\* order of the input and of the skipping and batching.
C11_OneResultPerPageSorted ==
    oPc = "done" =>
      /\ Len(oResults) = Len(oPages)
      /\ \A k \in 1..Len(oPages) : Cardinality(ResultsOf(oPages[k].pageNumber)) = 1
      /\ \A i \in 1..Len(oResults), j \in 1..Len(oResults) :
           i < j => oResults[i].page < oResults[j].page

\* Three pages given in descending order, the middle one blank, the other
\* two transcribed in one batch: the results come back ascending.
C11_Witness ==
    /\ oPc = "done"
    /\ Len(oPages) = 3
    /\ oPages[1].pageNumber > oPages[3].pageNumber
    /\ oPages[2].isBlank
    /\ Len(toProcess) = 2
    /\ oResults[1].page = oPages[3].pageNumber
    /\ oResults[1].status = "ok"
    /\ oResults[2].status = "skipped_blank"

\* C28 as stated: a page whose rendering failed (the placeholder with
\* renderError set and no image data) is reported with status 'failed' and
\* never as 'skipped_blank'.
C28_RenderFailureReportedFailed ==
    oPc = "done" =>
      \A k \in 1..Len(oPages) :
        (oPages[k].renderError /\ ~oPages[k].base64) =>
          \A r \in 1..Len(oResults) :
            oResults[r].page = oPages[k].pageNumber => oResults[r].status = "failed"

\* C12: a page marked blank gets status 'skipped_blank' and is in no
\* completion request; every page in a request is a non-blank input page.
C12_BlankPagesNeverSent ==
    /\ \A k \in 1..Len(oPages) :
         oPages[k].isBlank =>
           /\ oPages[k].pageNumber \notin oSent
           /\ \A b \in 1..Len(oRequest.pages) : oRequest.pages[b] # oPages[k].pageNumber
           /\ oPc # "start" =>
                /\ ResultsOf(oPages[k].pageNumber) # {}
                /\ \A r \in ResultsOf(oPages[k].pageNumber) :
                     oResults[r].status = "skipped_blank"
    /\ \A pn \in oSent :
         \E k \in 1..Len(oPages) : oPages[k].pageNumber = pn /\ ~oPages[k].isBlank

\* A blank page that does have image data was skipped while another page of
\* the same call was sent to the model.
C12_Witness ==
    /\ oPc = "done"
    /\ oSent # {}
    /\ \E k \in 1..Len(oPages) :
         /\ oPages[k].isBlank
         /\ oPages[k].base64
         /\ oPages[k].pageNumber \notin oSent

----------------------------------------------------------------------------
(* app/api/analyze/route.ts: withRetry, deleteFile, handleRequest          *)

ROUTE_MAX_RETRIES == 3

BASE_DELAY_MS == 2000

MAX_DELAY_MS == 32000

MAX_PDF_MB == 15

MAX_BYTES == MAX_PDF_MB * 1024 * 1024

\* req.formData() rejects, has no 'file' field, or has one.
Forms == {"unreadable", "nofile", "file"}

FileSizes == {0, MAX_BYTES, MAX_BYTES + 1}

\* client.files of the installed SDK: older versions have only del(), newer
\* ones add delete().
Sdks == { [hasDelete |-> TRUE, hasDel |-> TRUE],
          [hasDelete |-> FALSE, hasDel |-> TRUE] }

\* What responses.create can throw: an abort of the request, an APIError
\* with HTTP status 429 or 500, or another error.
AbortErr == [name |-> "AbortError", api |-> FALSE, status |-> 0]

RateLimitErr == [name |-> "Error", api |-> TRUE, status |-> 429]

ServerErr == [name |-> "Error", api |-> TRUE, status |-> 500]

NetworkErr == [name |-> "Error", api |-> FALSE, status |-> 0]

NoRouteErr == [name |-> "none", api |-> FALSE, status |-> 0]

\* The text of a model response: empty, not JSON, JSON that fails the
\* schema, or valid.
RawTexts == {"empty", "not_json", "bad_schema", "valid"}

\* err instanceof OpenAI.APIError && err.status === 429
IsRateLimit(e) == e.api /\ e.status = 429

\* e instanceof Error && e.name === 'AbortError'
IsAborted(e) == e.name = "AbortError"

\* withRetry, lines 202-204: the error is rethrown.
Rethrows(e, attempt) == attempt = ROUTE_MAX_RETRIES \/ ~IsRateLimit(e)

\* Math.min(baseDelayMs * Math.pow(2, attempt), 32_000)
RetryDelay(attempt) == Min(BASE_DELAY_MS * Pow2(attempt), MAX_DELAY_MS)

\* deleteFile, lines 243-250: the method that is called, if any.
DeleteFnNewOnly(sdk) == IF sdk.hasDelete THEN "delete" ELSE "none"

DeleteFn(sdk) ==
    IF sdk.hasDelete THEN "delete" ELSE IF sdk.hasDel THEN "del" ELSE "none"

\* The delete calls issued after one more call of deleteFile.
AfterDeleteFile(n) == IF DeleteFn(rSdk) = "none" THEN n ELSE n + 1

\* The request and options of responses.create, lines 347-369.
RouteRequest == [model |-> "gpt-4.1-mini", file |-> "uploaded", signal |-> TRUE]

NoRouteRequest == [model |-> "none", file |-> "none", signal |-> FALSE]

HttpResponse(status, reason) == [status |-> status, reason |-> reason]

NoResponse == HttpResponse(0, "none")

InitRoute ==
    /\ hasApiKey \in BOOLEAN
    /\ rForm \in Forms
    /\ rFileSize \in FileSizes
    /\ rSdk \in Sdks
    /\ rPc = "start"
    /\ rUploaded = FALSE
    /\ rAborted = FALSE
    /\ rTimer = FALSE
    /\ rAttempt = 0
    /\ rSleepMs = 0
    /\ rInvocations = 0
    /\ rRequest = NoRouteRequest
    /\ rErr = NoRouteErr
    /\ rRawText = "none"
    /\ rDeleted = 0
    /\ rResponse = NoResponse

RouteRespond(status, reason) ==
    /\ rResponse' = HttpResponse(status, reason)
    /\ rPc' = "done"

\* Lines 289-319: environment check, form parsing, size limit.
RouteAccept ==
    /\ rPc = "start"
    /\ IF ~hasApiKey THEN RouteRespond(500, "no_api_key")
       ELSE IF rForm = "unreadable" THEN RouteRespond(400, "bad_form")
       ELSE IF rForm = "nofile" THEN RouteRespond(400, "no_file")
       ELSE IF rFileSize > MAX_BYTES THEN RouteRespond(413, "too_large")
       ELSE /\ rPc' = "upload"
            /\ rResponse' = rResponse
    /\ UNCHANGED <<hasApiKey, rForm, rFileSize, rSdk, rUploaded, rAborted, rTimer,
                   rAttempt, rSleepMs, rInvocations, rRequest, rErr, rRawText, rDeleted>>
    /\ UNCHANGED <<extractVars, ocrVars, renderVars, libVars, jobVars>>

\* Lines 322-339: the upload, then the timer is armed.
RouteUpload ==
    /\ rPc = "upload"
    /\ \/ /\ rUploaded' = TRUE
          /\ rTimer' = TRUE
          /\ rPc' = "call"
          /\ rResponse' = rResponse
       \/ /\ RouteRespond(502, "upload_failed")
          /\ UNCHANGED <<rUploaded, rTimer>>
    /\ UNCHANGED <<hasApiKey, rForm, rFileSize, rSdk, rAborted, rAttempt, rSleepMs,
                   rInvocations, rRequest, rErr, rRawText, rDeleted>>
    /\ UNCHANGED <<extractVars, ocrVars, renderVars, libVars, jobVars>>

\* Line 339: the timer fires while the call or a backoff sleep is pending.
RouteTimeout ==
    /\ rTimer
    /\ ~rAborted
    /\ rPc \in {"call", "backoff"}
    /\ rAborted' = TRUE
    /\ UNCHANGED <<hasApiKey, rForm, rFileSize, rSdk, rPc, rUploaded, rTimer, rAttempt,
                   rSleepMs, rInvocations, rRequest, rErr, rRawText, rDeleted, rResponse>>
    /\ UNCHANGED <<extractVars, ocrVars, renderVars, libVars, jobVars>>

\* One pass of withRetry's loop body (lines 198-207) around
\* responses.create: with an aborted signal the call rejects with AbortError.
RouteCall ==
    /\ rPc = "call"
    /\ rInvocations' = rInvocations + 1
    /\ rRequest' = RouteRequest
    /\ \/ /\ ~rAborted
          /\ \E raw \in RawTexts : rRawText' = raw
          /\ rPc' = "output"
          /\ UNCHANGED <<rErr, rSleepMs>>
       \/ \E e \in (IF rAborted THEN {AbortErr}
                               ELSE {RateLimitErr, ServerErr, NetworkErr}) :
            /\ rErr' = e
            /\ IF Rethrows(e, rAttempt)
                 THEN /\ rPc' = "catch"
                      /\ rSleepMs' = rSleepMs
                 ELSE /\ rPc' = "backoff"
                      /\ rSleepMs' = RetryDelay(rAttempt)
            /\ rRawText' = rRawText
    /\ UNCHANGED <<hasApiKey, rForm, rFileSize, rSdk, rUploaded, rAborted, rTimer,
                   rAttempt, rDeleted, rResponse>>
    /\ UNCHANGED <<extractVars, ocrVars, renderVars, libVars, jobVars>>

\* Line 206: the backoff sleep is over, the next attempt begins.
RouteWake ==
    /\ rPc = "backoff"
    /\ rAttempt' = rAttempt + 1
    /\ rSleepMs' = 0
    /\ rErr' = NoRouteErr
    /\ rPc' = "call"
    /\ UNCHANGED <<hasApiKey, rForm, rFileSize, rSdk, rUploaded, rAborted, rTimer,
                   rInvocations, rRequest, rRawText, rDeleted, rResponse>>
    /\ UNCHANGED <<extractVars, ocrVars, renderVars, libVars, jobVars>>

\* Lines 374-390: the catch block and the finally block.
RouteCatch ==
    /\ rPc = "catch"
    /\ rDeleted' = AfterDeleteFile(rDeleted)
    /\ rTimer' = FALSE
    /\ IF IsAborted(rErr) THEN RouteRespond(504, "timeout")
       ELSE IF IsRateLimit(rErr) THEN RouteRespond(429, "rate_limit")
       ELSE RouteRespond(502, "api_error")
    /\ UNCHANGED <<hasApiKey, rForm, rFileSize, rSdk, rUploaded, rAborted, rAttempt,
                   rSleepMs, rInvocations, rRequest, rErr, rRawText>>
    /\ UNCHANGED <<extractVars, ocrVars, renderVars, libVars, jobVars>>

\* Lines 388-449: finally, the best-effort delete, and the checks of the
\* model output.
RouteOutput ==
    /\ rPc = "output"
    /\ rTimer' = FALSE
    /\ rDeleted' = AfterDeleteFile(rDeleted)
    /\ IF rRawText = "empty" THEN RouteRespond(502, "empty_output")
       ELSE IF rRawText = "not_json" THEN RouteRespond(502, "invalid_json")
       ELSE IF rRawText = "bad_schema" THEN RouteRespond(502, "schema_invalid")
       ELSE RouteRespond(200, "ok")
    /\ UNCHANGED <<hasApiKey, rForm, rFileSize, rSdk, rUploaded, rAborted, rAttempt,
                   rSleepMs, rInvocations, rRequest, rErr, rRawText>>
    /\ UNCHANGED <<extractVars, ocrVars, renderVars, libVars, jobVars>>

RouteActions ==
    \/ RouteAccept
    \/ RouteUpload
    \/ RouteTimeout
    \/ RouteCall
    \/ RouteWake
    \/ RouteCatch
    \/ RouteOutput

----------------------------------------------------------------------------
(* Claims about the retry bound and the analyze route                      *)

\* C4 as stated: under persistent rate limiting a call site invokes the
\* external API at most 3 times in total.
C4_AtMostThreeInvocations ==
    /\ rInvocations <= 3
    /\ oInvocations <= 3

\* C10: once the upload has succeeded, every way the request ends has issued
\* a delete of the uploaded file: success, timeout, rate-limit exhaustion,
\* other API error, empty output, invalid JSON, schema-invalid output. A
\* request that never uploaded issues none.
C10_UploadedFileDeleted ==
    /\ rPc = "done" /\ rUploaded =>
         /\ rDeleted >= 1
         /\ rResponse.reason \in {"ok", "timeout", "rate_limit", "api_error",
                                  "empty_output", "invalid_json", "schema_invalid"}
    /\ ~rUploaded => rDeleted = 0

\* A request on the older SDK ended with a schema-invalid model output after
\* deleting the file.
C10_Witness ==
    /\ rPc = "done"
    /\ rUploaded
    /\ ~rSdk.hasDelete
    /\ rResponse = HttpResponse(502, "schema_invalid")
    /\ rDeleted = 1

----------------------------------------------------------------------------
(* pdfRender.ts: selectDefaultPages, computeWhiteness, renderPdfPages,     *)
(* cleanupTempDir                                                          *)

WHITE_PERMILLE == 970     \* whiteness > 0.97, in thousandths

BLANK_BYTES == 8000       \* bytes < 8_000

\* Whiteness in thousandths: -1000 is computeWhiteness's 'cannot compute'.
Whitenesses == {-1000, WHITE_PERMILLE - 1, WHITE_PERMILLE, WHITE_PERMILLE + 1}

ByteSizes == {BLANK_BYTES - 1, BLANK_BYTES, BLANK_BYTES + 1}

\* opts: no page list and a maxPages, or an explicit page list (which may be
\* empty, unsorted, repeat a page or name pages the document lacks).
RenderOpts ==
    {[given |-> FALSE, pageList |-> <<>>, maxPages |-> m] : m \in 1..MaxRenderPages}
      \cup {[given |-> TRUE, pageList |-> l, maxPages |-> MaxRenderPages]
              : l \in {<<>>, <<2, 1>>, <<1, 1>>, <<0, 1, MaxTotal + 1>>}}

\* The numbers lo..hi in ascending order.
Range(lo, hi) == [k \in 1..Max(hi - lo + 1, 0) |-> lo + k - 1]

\* selectDefaultPages, lines 69-78
SelectDefaultPages(total, max) ==
    IF total <= max THEN Range(1, total)
    ELSE LET lastCount == Min(2, max)
             firstCount == max - lastCount
         IN  Range(1, firstCount) \o Range(Max(firstCount + 1, total - lastCount + 1), total)

\* Lines 168-170
PagesRequested(opts, total) ==
    IF opts.given
      THEN SelectSeq(opts.pageList, LAMBDA q : q >= 1 /\ q <= total)
      ELSE SelectDefaultPages(total, opts.maxPages)

\* Line 209
IsBlankAtThreshold(whiteness, bytes) ==
    (whiteness >= 0 /\ whiteness >= WHITE_PERMILLE) \/ bytes < BLANK_BYTES

IsBlank(whiteness, bytes) ==
    (whiteness >= 0 /\ whiteness > WHITE_PERMILLE) \/ bytes < BLANK_BYTES

\* Lines 211-221 and 225-236
RenderedPage(pn, whiteness, bytes) ==
    [pageNumber |-> pn, base64 |-> TRUE, mimeType |-> "image/jpeg", bytes |-> bytes,
     whiteness |-> whiteness, isBlank |-> IsBlank(whiteness, bytes),
     renderError |-> FALSE]

FailedPageNotBlank(pn) ==
    [pageNumber |-> pn, base64 |-> FALSE, mimeType |-> "image/jpeg", bytes |-> 0,
     whiteness |-> -1000, isBlank |-> FALSE, renderError |-> TRUE]

FailedPage(pn) ==
    [pageNumber |-> pn, base64 |-> FALSE, mimeType |-> "image/jpeg", bytes |-> 0,
     whiteness |-> -1000, isBlank |-> TRUE, renderError |-> TRUE]

InitRender ==
    /\ dOpts \in RenderOpts
    /\ dPc = "start"
    /\ dDir = FALSE
    /\ dFiles = {}
    /\ dTotal = 0
    /\ dRequested = <<>>
    /\ dIdx = 1
    /\ dPages = <<>>

\* Lines 145-147: the temp directory is created.
RenderStart ==
    /\ dPc = "start"
    /\ dDir' = TRUE
    /\ dPc' = "load"
    /\ UNCHANGED <<dOpts, dFiles, dTotal, dRequested, dIdx, dPages>>
    /\ UNCHANGED <<extractVars, ocrVars, routeVars, libVars, jobVars>>

\* Lines 150-170: the libraries and the document are loaded; a failure
\* rejects the call.
RenderLoad ==
    /\ dPc = "load"
    /\ \/ /\ dPc' = "threw"
          /\ UNCHANGED <<dTotal, dRequested>>
       \/ \E n \in 1..MaxTotal :
            /\ dTotal' = n
            /\ dRequested' = PagesRequested(dOpts, n)
            /\ dPc' = "pages"
    /\ UNCHANGED <<dOpts, dDir, dFiles, dIdx, dPages>>
    /\ UNCHANGED <<extractVars, ocrVars, routeVars, libVars, jobVars>>

\* Lines 174-238: one page of the loop; a throw anywhere in the try block
\* leaves no file and yields the placeholder.
RenderPage ==
    /\ dPc = "pages"
    /\ dIdx <= Len(dRequested)
    /\ LET pn == dRequested[dIdx] IN
         \/ \E w \in Whitenesses, b \in ByteSizes :
              /\ dFiles' = dFiles \cup {pn}
              /\ dPages' = Append(dPages, RenderedPage(pn, w, b))
         \/ /\ dPages' = Append(dPages, FailedPage(pn))
            /\ dFiles' = dFiles
    /\ dIdx' = dIdx + 1
    /\ UNCHANGED <<dOpts, dPc, dDir, dTotal, dRequested>>
    /\ UNCHANGED <<extractVars, ocrVars, routeVars, libVars, jobVars>>

\* Line 240: the batch is returned.
RenderReturn ==
    /\ dPc = "pages"
    /\ dIdx > Len(dRequested)
    /\ dPc' = "returned"
    /\ UNCHANGED <<dOpts, dDir, dFiles, dTotal, dRequested, dIdx, dPages>>
    /\ UNCHANGED <<extractVars, ocrVars, routeVars, libVars, jobVars>>

RenderEnded == dPc \in {"returned", "threw"}

\* cleanupTempDir, lines 247-254. The repository has no call of it; a
\* caller may call it once renderPdfPages has ended.
CleanupTempDir ==
    /\ RenderEnded
    /\ dDir' = FALSE
    /\ dFiles' = {}
    /\ UNCHANGED <<dOpts, dPc, dTotal, dRequested, dIdx, dPages>>
    /\ UNCHANGED <<extractVars, ocrVars, routeVars, libVars, jobVars>>

RenderSteps ==
    \/ RenderStart
    \/ RenderLoad
    \/ RenderPage
    \/ RenderReturn

RenderActions ==
    \/ RenderSteps
    \/ CleanupTempDir

----------------------------------------------------------------------------
(* Claims about the rendered-image files                                   *)

\* C9 as stated: once the processing of the document has ended, on success
\* or on failure, its rendered-image files are removed.
C9_TempFilesRemoved ==
    [](RenderEnded => <>(dFiles = {} /\ ~dDir))

\* C14: renderPdfPages returns one result per selected page, in order; a
\* page whose rendering threw is a placeholder that is blank, has no image
\* and carries the error; the call rejects only before the page loop.
C14_RenderFailuresPerPage ==
    /\ dPc = "returned" =>
         /\ Len(dPages) = Len(dRequested)
         /\ \A k \in 1..Len(dPages) : dPages[k].pageNumber = dRequested[k]
    /\ \A k \in 1..Len(dPages) :
         dPages[k].renderError =>
           /\ dPages[k].isBlank
           /\ ~dPages[k].base64
           /\ dPages[k].bytes = 0
    /\ dPc = "threw" => dTotal = 0 /\ dPages = <<>>

\* The first of two selected pages failed to render and the second was
\* rendered all the same.
C14_Witness ==
    /\ dPc = "returned"
    /\ Len(dPages) = 2
    /\ dPages[1].renderError
    /\ ~dPages[2].renderError
    /\ dPages[2].base64
    /\ dPages[2].pageNumber \in dFiles

\* C15: a rendered page is blank exactly when its whiteness is above 0.97
\* or its JPEG is smaller than 8000 bytes: blank at 0.971 or at 7999 bytes,
\* not blank at 0.969 (or 0.970) with 8000 or 8001 bytes, and not blank at
\* whiteness -1 unless the size says so.
C15_BlanknessBoundary ==
    \A k \in 1..Len(dPages) :
      LET pg == dPages[k] IN
        ~pg.renderError =>
          /\ pg.isBlank <=> (pg.whiteness > 970 \/ pg.bytes < 8000)
          /\ pg.whiteness = 971 => pg.isBlank
          /\ pg.bytes = 7999 => pg.isBlank
          /\ (pg.whiteness \in {969, 970} /\ pg.bytes \in {8000, 8001}) => ~pg.isBlank
          /\ (pg.whiteness = -1000 /\ pg.bytes >= 8000) => ~pg.isBlank

\* One page at whiteness 0.971 with 8001 bytes is blank, one at 0.969 with
\* 8001 bytes is not.
C15_Witness ==
    /\ dPc = "returned"
    /\ Len(dPages) = 2
    /\ dPages[1].whiteness = 971 /\ dPages[1].bytes = 8001 /\ dPages[1].isBlank
    /\ dPages[2].whiteness = 969 /\ dPages[2].bytes = 8001 /\ ~dPages[2].isBlank

----------------------------------------------------------------------------
(* checkTextQuality, the text-quality classifier                           *)

\* What checkTextQuality measures on rawText: its length, the number of
\* trimmed lines longer than 15 characters and the count of the most
\* frequent one, the occurrences of the watermark patterns, and the number
\* of tokens longer than 2 characters with the number of distinct ones.
QualityTexts ==
    [len : {900, 1199, 1200, 5999, 6000, 7999, 8000},
     lines : {[n |-> 10, maxFreq |-> 10], [n |-> 11, maxFreq |-> 2],
              [n |-> 11, maxFreq |-> 3], [n |-> 20, maxFreq |-> 4],
              [n |-> 20, maxFreq |-> 5]},
     watermarkHits : {0, 7, 8, 49, 50},
     tokens : {[count |-> 0, unique |-> 0], [count |-> 100, unique |-> 11],
               [count |-> 100, unique |-> 12]}]

QualityPageCounts == {0, 1, 6, 7}

\* avgCharsPerPage < 200, with avgCharsPerPage = pageCount > 0 ? len / pageCount : len
LowAvgCharsPerPage(t, pageCount) ==
    IF pageCount > 0 THEN t.len < 200 * pageCount ELSE t.len < 200

\* repetitionScore > 0.20; the score is 0 unless there are more than 10 lines
RepeatedLines(t) == t.lines.n > 10 /\ 100 * t.lines.maxFreq > 20 * t.lines.n

\* (watermarkHits * 40) / Math.max(len, 1) > 0.25
WatermarkDense(t) == 100 * (t.watermarkHits * 40) > 25 * Max(t.len, 1)

\* uniqueTokenRatio < 0.12; the ratio is 0 when there are no tokens
FewUniqueTokens(t) ==
    IF t.tokens.count > 0 THEN 100 * t.tokens.unique < 12 * t.tokens.count ELSE TRUE

QualityResult(usable, reason) == [usable |-> usable, reason |-> reason]

CheckTextQualityAvgFirst(t, pageCount) ==
    IF LowAvgCharsPerPage(t, pageCount) THEN QualityResult(FALSE, "low_avg_chars_per_page")
    ELSE IF t.len < 1200 THEN QualityResult(FALSE, "too_short")
    ELSE IF RepeatedLines(t) THEN QualityResult(FALSE, "repeated_disclaimer")
    ELSE IF WatermarkDense(t) /\ t.len < 8000 THEN QualityResult(FALSE, "watermark_dominated")
    ELSE IF FewUniqueTokens(t) /\ t.len < 6000 THEN QualityResult(FALSE, "low_unique_tokens")
    ELSE QualityResult(TRUE, "ok")

CheckTextQuality(t, pageCount) ==
    IF t.len < 1200 THEN QualityResult(FALSE, "too_short")
    ELSE IF LowAvgCharsPerPage(t, pageCount) THEN QualityResult(FALSE, "low_avg_chars_per_page")
    ELSE IF RepeatedLines(t) THEN QualityResult(FALSE, "repeated_disclaimer")
    ELSE IF WatermarkDense(t) /\ t.len < 8000 THEN QualityResult(FALSE, "watermark_dominated")
    ELSE IF FewUniqueTokens(t) /\ t.len < 6000 THEN QualityResult(FALSE, "low_unique_tokens")
    ELSE QualityResult(TRUE, "ok")

InitQuality ==
    /\ libFn = "checkTextQuality"
    /\ libArg \in [text : QualityTexts, pageCount : QualityPageCounts]
    /\ libDone = FALSE
    /\ libRet = QualityResult(FALSE, "none")

CallCheckTextQuality ==
    /\ libFn = "checkTextQuality"
    /\ ~libDone
    /\ libRet' = CheckTextQuality(libArg.text, libArg.pageCount)
    /\ libDone' = TRUE
    /\ UNCHANGED <<libFn, libArg>>
    /\ UNCHANGED <<extractVars, ocrVars, routeVars, renderVars, jobVars>>

----------------------------------------------------------------------------
(* Claims about checkTextQuality                                           *)

----------------------------------------------------------------------------
(* section-finder.ts: findSectionCandidates                                *)

WINDOW_SIZE == 1500

HALF_WINDOW == WINDOW_SIZE \div 2

KeywordLen == 10      \* keyword.length of the keywords of the field

PageTextLen == 3000   \* page.text.length

\* Offsets at which a keyword of the field occurs in a page's text, and the
\* offsets that lie in a title-like line.
HitOffsets == {100, 900, 1649, 1650, 2500}

TitleOffsets == {100}

\* A keyword occurrence: the page, the keyword (by its position in
\* KEYWORDS[fieldType]) and the offset idx of the match.
KeywordHits == [page : 1..MaxSectionPages, kw : 1..2, idx : HitOffsets]

\* The loops at lines 114-122 meet the occurrences page by page, keyword by
\* keyword, by ascending offset.
HitOrder(h) == (h.page * 10 + h.kw) * 10000 + h.idx

\* The documents: up to MaxHits occurrences, in the order they are met.
SectionDocs ==
    UNION { {d \in [1..n -> KeywordHits] :
               \A i \in 1..n, j \in 1..n : i < j => HitOrder(d[i]) < HitOrder(d[j])}
            : n \in 0..MaxHits }

Abs(x) == IF x < 0 THEN -x ELSE x

\* Lines 125-153 and 163-171: the candidate of one occurrence.
SectionCandidate(doc, h) ==
    LET start == Max(0, h.idx - HALF_WINDOW)
        end == Min(PageTextLen, h.idx + KeywordLen + HALF_WINDOW)
        matchedKeywords == {doc[i].kw : i \in {i \in 1..Len(doc) :
                               /\ doc[i].page = h.page
                               /\ doc[i].idx >= start
                               /\ doc[i].idx + KeywordLen <= end}}
        isTitle == h.idx \in TitleOffsets
    IN  [page |-> h.page, startOffset |-> start, endOffset |-> end,
         matchedKeywords |-> matchedKeywords, isTitle |-> isTitle,
         score |-> Cardinality(matchedKeywords) + (IF isTitle THEN 3 ELSE 0)
                     + (IF Cardinality(matchedKeywords) >= 3 THEN 2 ELSE 0)]

\* Lines 156-161
IsDuplicateOfLast(candidates, page, start) ==
    /\ candidates # <<>>
    /\ Last(candidates).page = page
    /\ Abs(Last(candidates).startOffset - start) < HALF_WINDOW

IsDuplicate(candidates, page, start) ==
    \E i \in 1..Len(candidates) :
      /\ candidates[i].page = page
      /\ Abs(candidates[i].startOffset - start) < HALF_WINDOW

\* The candidates array after the occurrences doc[k..] have been met.
RECURSIVE ScanHits(_, _, _)
ScanHits(doc, k, candidates) ==
    IF k > Len(doc) THEN candidates
    ELSE LET c == SectionCandidate(doc, doc[k])
         IN  ScanHits(doc, k + 1,
                      IF IsDuplicate(candidates, c.page, c.startOffset)
                        THEN candidates ELSE Append(candidates, c))

\* candidates.sort((a, b) => b.score - a.score): stable, by descending score
RECURSIVE SortByScore(_)
SortByScore(cs) ==
    IF cs = <<>> THEN <<>>
    ELSE LET rest == SortByScore(SubSeq(cs, 1, Len(cs) - 1))
             c == cs[Len(cs)]
             before == SelectSeq(rest, LAMBDA x : x.score >= c.score)
             after == SelectSeq(rest, LAMBDA x : x.score < c.score)
         IN  before \o <<c>> \o after

\* findSectionCandidates, lines 105-178
FindSectionCandidates(doc, maxCandidates) ==
    LET sorted == SortByScore(ScanHits(doc, 1, <<>>))
    IN  SubSeq(sorted, 1, Min(maxCandidates, Len(sorted)))

InitSections ==
    /\ libFn = "findSectionCandidates"
    /\ libArg \in [doc : SectionDocs, maxCandidates : {2, 5}]
    /\ libDone = FALSE
    /\ libRet = <<>>

CallFindSectionCandidates ==
    /\ libFn = "findSectionCandidates"
    /\ ~libDone
    /\ libRet' = FindSectionCandidates(libArg.doc, libArg.maxCandidates)
    /\ libDone' = TRUE
    /\ UNCHANGED <<libFn, libArg>>
    /\ UNCHANGED <<extractVars, ocrVars, routeVars, renderVars, jobVars>>

----------------------------------------------------------------------------
(* Claims about findSectionCandidates                                      *)

SectionsReturned == libFn = "findSectionCandidates" /\ libDone

\* C17: no two returned candidates of the same page have start offsets less
\* than half a window (750 characters) apart; of colliding occurrences the
\* first one met is kept: unless the list was cut to maxCandidates, every
\* occurrence has, among the candidates from the occurrences met up to it,
\* one of its page less than 750 characters from its own window start.
C17_NoOverlappingCandidates ==
    SectionsReturned =>
      /\ \A i \in 1..Len(libRet), j \in 1..Len(libRet) :
           (i # j /\ libRet[i].page = libRet[j].page) =>
             Abs(libRet[i].startOffset - libRet[j].startOffset) >= 750
      /\ Len(libRet) < libArg.maxCandidates =>
           \A k \in 1..Len(libArg.doc) :
             LET h == libArg.doc[k]
                 start == IF h.idx > 750 THEN h.idx - 750 ELSE 0
                 near(c) == /\ c.page = h.page
                            /\ Abs(c.startOffset - start) < 750
                 earlier == {g \in 1..k : \E i \in 1..Len(libRet) :
                                /\ libRet[i].page = libArg.doc[g].page
                                /\ libRet[i].startOffset
                                     = (IF libArg.doc[g].idx > 750
                                          THEN libArg.doc[g].idx - 750 ELSE 0)}
             IN  /\ \E i \in 1..Len(libRet) : near(libRet[i])
                 /\ earlier # {}
                 /\ (k = 1 \/ libArg.doc[k - 1].page # h.page) =>
                      \E i \in 1..Len(libRet) :
                        libRet[i].page = h.page /\ libRet[i].startOffset = start

\* Three occurrences on one page with window starts 0, 150 and 900: the
\* second collides with the first and is dropped, the third is kept.
C17_Witness ==
    /\ SectionsReturned
    /\ Len(libArg.doc) = 3
    /\ \A k \in 1..3 : libArg.doc[k].page = 1 /\ libArg.doc[k].kw = 1
    /\ libArg.doc[1].idx = 100 /\ libArg.doc[2].idx = 900 /\ libArg.doc[3].idx = 1650
    /\ Len(libRet) = 2
    /\ {libRet[1].startOffset, libRet[2].startOffset} = {0, 900}

----------------------------------------------------------------------------
(* field-extractors.ts: extractExpertValue                                 *)

\* valuePriority, lines 242-252
VALUE_PRIORITY ==
    <<"valore di stima", "valore di perizia", "più probabile valore", "valore stimato",
      "valore di mercato", "valore venale", "valore commerciale", "prezzo base",
      "base d'asta">>

\* The value-type phrases a candidate window may contain, by their position
\* in valuePriority.
WindowPhrases == SUBSET {1, 2, 9}

\* The sections findSectionCandidates returned, in its order: for each
\* window the phrases its text includes.
ExpertSections == UNION {[1..n -> WindowPhrases] : n \in 0..MaxSections}

MinOf(S) == CHOOSE x \in S : \A y \in S : x <= y

\* Lines 254-266: bestSection and bestType after the sections k.. have been
\* looked at; in each section the inner loop stops at its first phrase in
\* priority order.
RECURSIVE BestOf(_, _, _)
BestOf(sections, k, best) ==
    IF k > Len(sections) THEN best
    ELSE BestOf(sections, k + 1,
                IF sections[k] # {}
                  THEN [section |-> k, tipo |-> VALUE_PRIORITY[MinOf(sections[k])]]
                  ELSE best)

\* extractExpertValue, lines 228-300: tipo and the index of the section the
\* value is read from (0 and 'Non rilevato' when there is no section).
ExtractExpertValue(sections) ==
    IF sections = <<>> THEN [section |-> 0, tipo |-> "Non rilevato"]
    ELSE BestOf(sections, 1, [section |-> 1, tipo |-> "valore di stima"])

InitExpertValue ==
    /\ libFn = "extractExpertValue"
    /\ libArg \in ExpertSections
    /\ libDone = FALSE
    /\ libRet = [section |-> 0, tipo |-> "none"]

CallExtractExpertValue ==
    /\ libFn = "extractExpertValue"
    /\ ~libDone
    /\ libRet' = ExtractExpertValue(libArg)
    /\ libDone' = TRUE
    /\ UNCHANGED <<libFn, libArg>>
    /\ UNCHANGED <<extractVars, ocrVars, routeVars, renderVars, jobVars>>

----------------------------------------------------------------------------
(* Claims about extractExpertValue                                         *)

\* C18 as stated: when some window contains a value-type phrase, the
\* reported tipo is the highest-priority phrase found in any window, and the
\* selected window contains it.
C18_HighestPriorityWindow ==
    (libFn = "extractExpertValue" /\ libDone
       /\ \E k \in 1..Len(libArg) : libArg[k] # {}) =>
      LET found == UNION {libArg[k] : k \in 1..Len(libArg)}
          top == CHOOSE x \in found : \A y \in found : x <= y
      IN  /\ libRet.tipo = VALUE_PRIORITY[top]
          /\ top \in libArg[libRet.section]

----------------------------------------------------------------------------
(* amount-extractor.ts: normalizeAmount                                    *)

DIGITS == <<"0", "1", "2", "3", "4", "5", "6", "7", "8", "9">>

IsDigit(c) == \E i \in 1..10 : DIGITS[i] = c

DigitVal(c) == (CHOOSE i \in 1..10 : DIGITS[i] = c) - 1

\* The strings of the header comment, of the tests and of the examples, as
\* sequences of characters.
AmountExamples ==
    { <<"€", " ", "1", "2", "3", ".", "4", "5", "6", ",", "7", "8">>,
      <<"1", "2", "3", ".", "4", "5", "6", ",", "7", "8">>,
      <<"1", "2", "3", ",", "4", "5", "6", ".", "7", "8">>,
      <<"1", ".", "2", "0", "0", ".", "0", "0", "0">>,
      <<"3", "0", "0", ".", "0", "0", "0">>,
      <<"3", "0", "0", " ", "0", "0", "0">>,
      <<"5", "0", "0", "0", ",", "5", "0">>,
      <<"1", "2", "3", ".", "4", "5", "6">>,
      <<"5", "0", "0", "0">>,
      <<"a", "b", "c">> }

\* Every string of up to MaxAmountLen characters over 0, 1, dot and comma.
AmountStrings ==
    AmountExamples
      \cup UNION {[1..n -> {"0", "1", ".", ","}] : n \in 0..MaxAmountLen}

\* s.replace(/c/g, '')
RemoveAll(s, c) == SelectSeq(s, LAMBDA x : x # c)

\* s.lastIndexOf(c), counted from 1; 0 when absent
LastIndexOf(s, c) ==
    LET at == {i \in 1..Len(s) : s[i] = c}
    IN  IF at = {} THEN 0 ELSE CHOOSE i \in at : \A j \in at : j <= i

\* s.replace(c, d): the first occurrence only
ReplaceFirst(s, c, d) ==
    LET at == {i \in 1..Len(s) : s[i] = c}
        first == CHOOSE i \in at : \A j \in at : i <= j
    IN  IF at = {} THEN s ELSE [i \in 1..Len(s) |-> IF i = first THEN d ELSE s[i]]

\* The longest run of digits at the start of s.
RECURSIVE DigitPrefix(_)
DigitPrefix(s) ==
    IF s = <<>> \/ ~IsDigit(Head(s)) THEN <<>> ELSE <<Head(s)>> \o DigitPrefix(Tail(s))

RECURSIVE DigitsVal(_)
DigitsVal(ds) ==
    IF ds = <<>> THEN 0 ELSE 10 * DigitsVal(SubSeq(ds, 1, Len(ds) - 1)) + DigitVal(ds[Len(ds)])

RECURSIVE StripZeros(_)
StripZeros(ds) ==
    IF ds # <<>> /\ ds[Len(ds)] = "0" THEN StripZeros(SubSeq(ds, 1, Len(ds) - 1)) ELSE ds

\* A decimal number: mant / 10^dec, without trailing zeros in the fraction.
Decimal(intDigits, fracDigits) ==
    [nan |-> FALSE, mant |-> DigitsVal(intDigits \o StripZeros(fracDigits)),
     dec |-> Len(StripZeros(fracDigits))]

NaN == [nan |-> TRUE, mant |-> 0, dec |-> 0]

\* parseFloat on a string without whitespace, sign or exponent: the longest
\* prefix of the form digits, digits.digits, digits. or .digits; NaN if none.
ParseFloat(s) ==
    LET int == DigitPrefix(s)
        rest == SubSeq(s, Len(int) + 1, Len(s))
        frac == IF rest # <<>> /\ Head(rest) = "." THEN DigitPrefix(Tail(rest)) ELSE <<>>
    IN  IF int = <<>> /\ frac = <<>> THEN NaN ELSE Decimal(int, frac)

\* Lines 49-50: exactly three characters after the last dot, all digits
ThreeDigitsAfter(cleaned, lastDot) ==
    /\ Len(cleaned) - lastDot = 3
    /\ \A i \in (lastDot + 1)..Len(cleaned) : IsDigit(cleaned[i])

\* Lines 38-61: the string that is handed to parseFloat.
CleanedDotAlwaysDecimal(raw) ==
    LET cleaned == RemoveAll(raw, " ")
        lastComma == LastIndexOf(cleaned, ",")
        lastDot == LastIndexOf(cleaned, ".")
    IN  IF lastComma > lastDot THEN ReplaceFirst(RemoveAll(cleaned, "."), ",", ".")
        ELSE RemoveAll(cleaned, ",")

Cleaned(raw) ==
    LET cleaned == RemoveAll(raw, " ")
        lastComma == LastIndexOf(cleaned, ",")
        lastDot == LastIndexOf(cleaned, ".")
    IN  IF lastComma > lastDot THEN ReplaceFirst(RemoveAll(cleaned, "."), ",", ".")
        ELSE IF lastDot > lastComma
          THEN IF ThreeDigitsAfter(cleaned, lastDot) THEN RemoveAll(cleaned, ".")
               ELSE RemoveAll(cleaned, ",")
        ELSE cleaned

\* normalizeAmount, lines 37-65
NormalizeAmount(raw) ==
    LET value == ParseFloat(Cleaned(raw))
    IN  IF value.nan THEN Decimal(<<"0">>, <<>>) ELSE value

InitAmount ==
    /\ libFn = "normalizeAmount"
    /\ libArg \in AmountStrings
    /\ libDone = FALSE
    /\ libRet = NaN

CallNormalizeAmount ==
    /\ libFn = "normalizeAmount"
    /\ ~libDone
    /\ libRet' = NormalizeAmount(libArg)
    /\ libDone' = TRUE
    /\ UNCHANGED <<libFn, libArg>>
    /\ UNCHANGED <<extractVars, ocrVars, routeVars, renderVars, jobVars>>

----------------------------------------------------------------------------
(* Claims about normalizeAmount                                            *)

AmountNormalized == libFn = "normalizeAmount" /\ libDone

\* The number written by the digits of s when every character thousands is
\* a separator to skip and the character point is the decimal point.
ReadAs(s, thousands, point) ==
    LET digits == RemoveAll(s, thousands)
        p == LastIndexOf(digits, point)
    IN  IF p = 0 THEN Decimal(digits, <<>>)
        ELSE Decimal(SubSeq(digits, 1, p - 1), SubSeq(digits, p + 1, Len(digits)))

\* The amounts the rule speaks of: digits with dots and commas, where the
\* rightmost kind of separator occurs once if it is the decimal point, and a
\* digit comes first.
PlainAmount(s) ==
    /\ s # <<>>
    /\ IsDigit(s[1])
    /\ \A i \in 1..Len(s) : IsDigit(s[i]) \/ s[i] \in {".", ","}

Count(s, c) == Cardinality({i \in 1..Len(s) : s[i] = c})

C20_RoundTripInstances ==
    AmountNormalized =>
      /\ libArg = <<"€", " ", "1", "2", "3", ".", "4", "5", "6", ",", "7", "8">> =>
           libRet = [nan |-> FALSE, mant |-> 12345678, dec |-> 2]
      /\ libArg = <<"3", "0", "0", ".", "0", "0", "0">> =>
           libRet = [nan |-> FALSE, mant |-> 300000, dec |-> 0]
      /\ libArg = <<"5", "0", "0", "0", ",", "5", "0">> =>
           libRet = [nan |-> FALSE, mant |-> 50005, dec |-> 1]

\* C21: a number with a single dot and no comma is read with the dot as the
\* decimal point; "123.456" gives 123.456.
C21_SingleDotIsDecimal ==
    (/\ AmountNormalized
     /\ PlainAmount(libArg)
     /\ Count(libArg, ".") = 1
     /\ Count(libArg, ",") = 0) =>
      /\ libRet = ReadAs(libArg, ",", ".")
      /\ libArg = <<"1", "2", "3", ".", "4", "5", "6">> =>
            libRet = [nan |-> FALSE, mant |-> 123456, dec |-> 3]

----------------------------------------------------------------------------
(* confidence.ts: calculateConfidence                                      *)

\* Scores are counted in hundredths: every term of the sum is a whole number
\* of hundredths up to the rounding error of the floating-point sum, which
\* Math.round(score * 100) / 100 removes.

\* The candidates the function is given: the number of matched keywords,
\* isTitle and text.length on both sides of the two thresholds.
ConfidenceCandidates ==
    [matchedKeywords : 0..MaxKeywords, isTitle : BOOLEAN,
     textLength : {0, 50, 51, 200, 201, 1500}]

\* Line 18: Math.min(candidate.matchedKeywords.length / 4, 1) * 0.4
KeywordScore(n) == IF n >= 4 THEN 40 ELSE n * 10

\* Lines 27-31
TextLengthScore(len) == IF len > 200 THEN 15 ELSE IF len > 50 THEN 8 ELSE 0

\* Lines 34-40
CandidateScoreSameForAll(totalCandidates) == 5

CandidateScore(totalCandidates) ==
    IF totalCandidates = 1 THEN 20
    ELSE IF totalCandidates = 2 THEN 10
    ELSE IF totalCandidates <= 3 THEN 5
    ELSE 0

\* calculateConfidence, lines 10-43
CalculateConfidence(candidate, totalCandidates) ==
    Min(KeywordScore(candidate.matchedKeywords)
          + (IF candidate.isTitle THEN 25 ELSE 0)
          + TextLengthScore(candidate.textLength)
          + CandidateScore(totalCandidates),
        100)

\* The callers pass sections.length of a non-empty list.
InitConfidence ==
    /\ libFn = "calculateConfidence"
    /\ libArg \in [candidate : ConfidenceCandidates,
                   totalCandidates : 1..MaxCandidates]
    /\ libDone = FALSE
    /\ libRet = 0

CallCalculateConfidence ==
    /\ libFn = "calculateConfidence"
    /\ ~libDone
    /\ libRet' = CalculateConfidence(libArg.candidate, libArg.totalCandidates)
    /\ libDone' = TRUE
    /\ UNCHANGED <<libFn, libArg>>
    /\ UNCHANGED <<extractVars, ocrVars, routeVars, renderVars, jobVars>>

----------------------------------------------------------------------------
(* Claims about calculateConfidence                                        *)

\* The sum the claim describes, in hundredths, for a candidate among total
\* candidates.
StatedConfidence(c, total) ==
    LET keyword == (Min(c.matchedKeywords * 25, 100) * 40) \div 100
        title == IF c.isTitle THEN 25 ELSE 0
        length == IF c.textLength > 200 THEN 15
                  ELSE IF c.textLength > 50 THEN 8 ELSE 0
        scarcity == CASE total = 1 -> 20
                      [] total = 2 -> 10
                      [] total = 3 -> 5
                      [] OTHER -> 0
    IN  Max(0, Min(100, keyword + title + length + scarcity))

\* C25: calculateConfidence returns the stated sum, clamped to [0, 1] and
\* rounded to two decimals; the score lies in [0, 1]; with one candidate in
\* total it is strictly higher than the same candidate's score among five.
C25_ConfidenceFormula ==
    (libFn = "calculateConfidence" /\ libDone) =>
      /\ libRet = StatedConfidence(libArg.candidate, libArg.totalCandidates)
      /\ libRet >= 0 /\ libRet <= 100
      /\ libArg.totalCandidates = 1 => libRet > StatedConfidence(libArg.candidate, 5)

\* A sole candidate with four keywords, a title and a long text reaches 1.
C25_Witness ==
    /\ libFn = "calculateConfidence" /\ libDone
    /\ libArg.totalCandidates = 1
    /\ libArg.candidate.matchedKeywords >= 4
    /\ libArg.candidate.isTitle
    /\ libArg.candidate.textLength > 200
    /\ libRet = 100

----------------------------------------------------------------------------
(* amount-extractor.ts: AMOUNT_PATTERNS and extractAmounts                 *)

\* Texts are strings; positions are counted from 1, so that match.index is
\* the position minus one.  The only white space in the texts is the space.

CharAt(t, i) == IF i >= 1 /\ i <= Len(t) THEN SubSeq(t, i, i) ELSE ""

Slice1(t, from, to) == SubSeq(t, Max(from, 1), Min(to, Len(t)))

CharSeq(s) == [i \in 1..Len(s) |-> SubSeq(s, i, i)]

IsSpace(c) == c = " "

UPPER == "ABCDEFGHIJKLMNOPQRSTUVWXYZ"

LOWER == "abcdefghijklmnopqrstuvwxyz"

LowerChar(c) ==
    LET K == {k \in 1..26 : SubSeq(UPPER, k, k) = c}
    IN  IF K = {} THEN c ELSE CHOOSE l \in {SubSeq(LOWER, k, k) : k \in K} : TRUE

RECURSIVE LowerFrom(_, _)
LowerFrom(t, i) ==
    IF i > Len(t) THEN "" ELSE LowerChar(SubSeq(t, i, i)) \o LowerFrom(t, i + 1)

ToLowerCase(text) == Let(text, LAMBDA t : LowerFrom(t, 1))

\* \w
IsWordChar(c) ==
    \/ IsDigit(c)
    \/ c = "_"
    \/ \E k \in 1..26 : SubSeq(LOWER, k, k) = LowerChar(c)

\* text.includes(phrase)
Includes(text, phrase) ==
    \E i \in 1..(Len(text) - Len(phrase) + 1) :
      SubSeq(text, i, i + Len(phrase) - 1) = phrase

\* [\d]{n} at position i
DigitsAt(t, i, n) == \A k \in i..(i + n - 1) : IsDigit(CharAt(t, k))

\* \s* from position i: the position of the first character that is no space
SkipSpaces(t, i) ==
    CHOOSE n \in i..(Len(t) + 1) :
      /\ ~IsSpace(CharAt(t, n))
      /\ \A k \in i..(n - 1) : IsSpace(CharAt(t, k))

\* (?:[seps][\d]{3})* from position i: the largest number of groups
GroupCount(t, i, seps) ==
    LET Group(k) == CharAt(t, i + 4 * k) \in seps /\ DigitsAt(t, i + 4 * k + 1, 3)
    IN  CHOOSE g \in 0..(Len(t) \div 4) : ~Group(g) /\ \A k \in 0..(g - 1) : Group(k)

\* The ways [\d]{1,3}(?:[seps][\d]{3})*(?:,[\d]{1,2})? matches at position
\* i: d leading digits, g groups of a separator and three digits, and c
\* decimals after a comma (0 for no decimal part).
NumberParses(t, i, seps) ==
    UNION { UNION { { [d |-> d, g |-> g, c |-> c] :
                        c \in {c \in 0..2 :
                                 c > 0 => /\ CharAt(t, i + d + 4 * g) = ","
                                          /\ DigitsAt(t, i + d + 4 * g + 1, c)} }
                    : g \in 0..GroupCount(t, i + d, seps) }
            : d \in {d \in 1..3 : DigitsAt(t, i, d)} }

\* The position after the number matched as p from position i.
ParseEnd(i, p) == i + p.d + 4 * p.g + (IF p.c > 0 THEN p.c + 1 ELSE 0)

\* The quantifiers are greedy: among the parses that let the rest of the
\* pattern match, the one with the most leading digits, then groups, then
\* decimals, is the match.
Greedy(P) ==
    CHOOSE p \in P : \A q \in P :
      \/ p.d > q.d
      \/ p.d = q.d /\ p.g > q.g
      \/ p.d = q.d /\ p.g = q.g /\ p.c >= q.c

NoMatch == [index |-> 0, end |-> 0, numStr |-> ""]

\* A match from position i up to position end, with the number from
\* position from up to position to.
Matched(t, i, end, from, to) ==
    [index |-> i, end |-> end, numStr |-> SubSeq(t, from, to - 1)]

\* (?:euro|eur) at position a, case-insensitive: the length matched when
\* follows(position after it) holds, 0 for no match
EuroAt(t, a, follows(_)) ==
    IF ToLowerCase(Slice1(t, a, a + 3)) = "euro" /\ follows(a + 4) THEN 4
    ELSE IF ToLowerCase(Slice1(t, a, a + 2)) = "eur" /\ follows(a + 3) THEN 3
    ELSE 0

\* The match of a number from position n whose parses are P, for a pattern
\* that begins at position i and ends with the number.
NumberLast(t, i, n, P) ==
    IF P = {} THEN NoMatch
    ELSE Let(ParseEnd(n, Greedy(P)), LAMBDA e : Matched(t, i, e, n, e))

\* The match of a number from position i, for a pattern that ends with
\* After(e) characters from the position a after the number and its spaces;
\* After(a) = 0 when the pattern does not match there.
NumberFirst(t, i, After(_)) ==
    Let({p \in NumberParses(t, i, {"."}) : After(SkipSpaces(t, ParseEnd(i, p))) > 0},
        LAMBDA P :
          IF P = {} THEN NoMatch
          ELSE Let(ParseEnd(i, Greedy(P)), LAMBDA e :
                 Let(SkipSpaces(t, e), LAMBDA a : Matched(t, i, a + After(a), i, e))))

\* Pattern 1, line 19: the euro sign, then the number
EuroSignBefore(t, i) ==
    IF CharAt(t, i) # "€" THEN NoMatch
    ELSE Let(SkipSpaces(t, i + 1), LAMBDA n :
           Let(NumberParses(t, n, {".", " "}), LAMBDA P : NumberLast(t, i, n, P)))

\* Pattern 2, line 21: the number, then the euro sign
EuroSignAfter(t, i) ==
    NumberFirst(t, i, LAMBDA a : IF CharAt(t, a) = "€" THEN 1 ELSE 0)

\* Pattern 3, line 23: "euro" or "eur", white space, the number
EuroWordBefore(t, i) ==
    IF LowerChar(CharAt(t, i)) # "e" THEN NoMatch
    ELSE Let(EuroAt(t, i, LAMBDA a :
               /\ IsSpace(CharAt(t, a))
               /\ NumberParses(t, SkipSpaces(t, a), {".", " "}) # {}),
             LAMBDA w :
               IF w = 0 THEN NoMatch
               ELSE Let(SkipSpaces(t, i + w), LAMBDA n :
                      Let(NumberParses(t, n, {".", " "}), LAMBDA P :
                        NumberLast(t, i, n, P))))

\* Pattern 4, line 24: the number, then "euro" or "eur" ending a word
EuroWordAfter(t, i) ==
    NumberFirst(t, i, LAMBDA a : EuroAt(t, a, LAMBDA b : ~IsWordChar(CharAt(t, b))))

\* (?:\d{1,3}\.){n} from position i: the position after it, 0 for no match
RECURSIVE AfterGroups(_, _, _)
AfterGroups(t, i, n) ==
    IF n = 0 THEN i
    ELSE Let({d \in 1..3 : DigitsAt(t, i, d) /\ CharAt(t, i + d) = "."}, LAMBDA D :
           IF D = {} THEN 0
           ELSE Let(i + (CHOOSE d \in D : TRUE) + 1, LAMBDA j : AfterGroups(t, j, n - 1)))

\* Pattern 5, line 27: one to four groups of digits and a dot, three
\* digits, and no comma and digit after them
DotThousands(t, i) ==
    LET Follows(p) ==
            Let(SkipSpaces(t, p), LAMBDA a :
              CharAt(t, a) = "," /\ IsDigit(CharAt(t, SkipSpaces(t, a + 1))))
        Ends(n) ==
            Let(AfterGroups(t, i, n), LAMBDA p :
              IF p # 0 /\ DigitsAt(t, p, 3) /\ ~Follows(p + 3) THEN {p + 3} ELSE {})
    IN  Let(<<Ends(1), Ends(2), Ends(3), Ends(4)>>, LAMBDA E :
          IF \A n \in 1..4 : E[n] = {} THEN NoMatch
          ELSE Let(CHOOSE e \in E[CHOOSE n \in 1..4 :
                                    E[n] # {} /\ \A m \in (n + 1)..4 : E[m] = {}] : TRUE,
                   LAMBDA e : Matched(t, i, e, i, e)))

\* A match of pattern 2, 4 or 5 starts with a digit.
MatchAt(pattern, t, i) ==
    CASE pattern = 1 -> EuroSignBefore(t, i)
      [] pattern = 3 -> EuroWordBefore(t, i)
      [] pattern \in {2, 4, 5} /\ ~IsDigit(CharAt(t, i)) -> NoMatch
      [] pattern = 2 -> EuroSignAfter(t, i)
      [] pattern = 4 -> EuroWordAfter(t, i)
      [] pattern = 5 -> DotThousands(t, i)

\* Lines 77-78: the successive regex.exec(text) of a global pattern: the
\* matches at the positions of ms that start at or after position from,
\* leftmost first, each search starting where the last match ended.
RECURSIVE NextMatches(_, _)
NextMatches(ms, from) ==
    Let({m \in ms : m.index >= from}, LAMBDA rest :
      IF rest = {} THEN <<>>
      ELSE Let(CHOOSE m \in rest : \A o \in rest : m.index <= o.index, LAMBDA m :
             <<m>> \o NextMatches(rest, m.end)))

ExecAll(pattern, t) ==
    NextMatches({MatchAt(pattern, t, i) : i \in 1..Len(t)} \ {NoMatch}, 1)

\* Lines 78-91: matches at an index seen before are skipped; a match whose
\* number normalizes to a positive value is kept.
RECURSIVE KeepMatches(_, _, _, _)
KeepMatches(t, ms, k, seen) ==
    IF k > Len(ms) THEN <<>>
    ELSE IF ms[k].index \in seen THEN KeepMatches(t, ms, k + 1, seen)
    ELSE Let(NormalizeAmount(CharSeq(ms[k].numStr)), LAMBDA value :
           (IF value.mant > 0
              THEN <<[raw |-> SubSeq(t, ms[k].index, ms[k].end - 1), value |-> value,
                      startIndex |-> ms[k].index - 1]>>
              ELSE <<>>)
             \o Let(seen \cup {ms[k].index}, LAMBDA seenNow :
                  KeepMatches(t, ms, k + 1, seenNow)))

\* results.sort((a, b) => a.startIndex - b.startIndex); no two results
\* start at the same index
SortByStartIndex(rs) ==
    LET Rank(k) == Cardinality({j \in 1..Len(rs) : rs[j].startIndex <= rs[k].startIndex})
    IN  [n \in 1..Len(rs) |-> rs[CHOOSE k \in 1..Len(rs) : Rank(k) = n]]

\* Lines 95-101
RECURSIVE Dedupe(_, _, _)
Dedupe(rs, k, deduped) ==
    IF k > Len(rs) THEN deduped
    ELSE LET r == rs[k]
             isDup == \E j \in 1..Len(deduped) :
                        LET d == deduped[j]
                        IN  \/ Abs(d.startIndex - r.startIndex) < 3
                            \/ d.value = r.value /\ Abs(d.startIndex - r.startIndex) < 20
         IN  Let(IF isDup THEN deduped ELSE Append(deduped, r), LAMBDA next :
               Dedupe(rs, k + 1, next))

\* extractAmounts, lines 69-104
ExtractAmounts(text) ==
    Let(text, LAMBDA t :
      Let(ExecAll(1, t) \o ExecAll(2, t) \o ExecAll(3, t) \o ExecAll(4, t) \o ExecAll(5, t),
          LAMBDA ms :
            Let(KeepMatches(t, ms, 1, {}), LAMBDA kept :
              Let(SortByStartIndex(kept), LAMBDA sorted : Dedupe(sorted, 1, <<>>)))))

----------------------------------------------------------------------------
(* field-extractors.ts: the four field extractors                          *)

\* The recency phrases of keywords.ts
ULTIMI_DUE_ANNI_PATTERNS == <<"ultimi due anni", "ultimi 2 anni">>

\* Candidate windows as findSectionCandidates returns them: the window text,
\* matchedKeywords.length and isTitle.
FieldWindows ==
    { [text |-> "Spese condominiali arretrate ultimi due anni: € 3.450,00",
       matchedKeywords |-> 2, isTitle |-> TRUE],
      [text |-> "Oneri ultimi 2 anni € 1.000,00 oltre € 250,50 per lavori",
       matchedKeywords |-> 1, isTitle |-> FALSE],
      [text |-> "spese a carico", matchedKeywords |-> 1, isTitle |-> FALSE],
      [text |-> "Abuso edilizio di lieve entita", matchedKeywords |-> 1, isTitle |-> TRUE],
      [text |-> "difformita non sanabile", matchedKeywords |-> 1, isTitle |-> FALSE],
      [text |-> "valore di mercato € 185.000,00 e prezzo base € 165.000,00",
       matchedKeywords |-> 2, isTitle |-> FALSE] }

\* score of a candidate (section-finder, lines 148-152)
WindowScore(s) ==
    s.matchedKeywords + (IF s.isTitle THEN 3 ELSE 0)
      + (IF s.matchedKeywords >= 3 THEN 2 ELSE 0)

\* The lists findSectionCandidates returns: by descending score.
FieldSections ==
    UNION { {ss \in [1..n -> FieldWindows] :
               \A i \in 1..(n - 1) : WindowScore(ss[i]) >= WindowScore(ss[i + 1])}
            : n \in 0..MaxFieldSections }

\* calculateConfidence(section, sections.length)
SectionConfidence(section, sections) ==
    CalculateConfidence([matchedKeywords |-> section.matchedKeywords,
                         isTitle |-> section.isTitle,
                         textLength |-> Len(section.text)],
                        Len(sections))

\* makeCitation, lines 19-26: the snippet
MakeCitation(section, snippetLength) == Slice1(section.text, 1, snippetLength)

\* list.filter(p).join(', ')
RECURSIVE JoinIncluded(_, _)
JoinIncluded(list, text) ==
    IF list = <<>> THEN ""
    ELSE Let(JoinIncluded(Tail(list), text), LAMBDA rest :
           IF ~Includes(text, Head(list)) THEN rest
           ELSE IF rest = "" THEN Head(list)
           ELSE Head(list) \o ", " \o rest)

\* The results of all sections, in order.
RECURSIVE FlatMap(_, _)
FlatMap(F(_), sections) ==
    IF sections = <<>> THEN <<>> ELSE F(Head(sections)) \o FlatMap(F, Tail(sections))

\* extractAntecedentActs, lines 45-89
ExtractAntecedentActs(sections) ==
    LET actTypes == <<"compravendita", "donazione", "successione",
                      "decreto di trasferimento", "pignoramento", "ipoteca", "servitù",
                      "trascrizione", "iscrizione", "formalità", "vincolo">>
        Act(section) ==
            Let(ToLowerCase(section.text), LAMBDA textLower :
              Let(JoinIncluded(actTypes, textLower), LAMBDA foundTypes :
                <<[tipoAtto |-> IF foundTypes # "" THEN foundTypes ELSE "Atto generico",
                   confidence |-> SectionConfidence(section, sections),
                   reason |-> "Keyword match: ",
                   citations |-> <<MakeCitation(section, 300)>>]>>))
    IN  IF sections = <<>>
          THEN <<[tipoAtto |-> "Non rilevato",
                  confidence |-> 0,
                  reason |-> "Nessun keyword match trovato. Cerca in: provenienza, titoli, formalità pregiudizievoli, iscrizioni, trascrizioni.",
                  citations |-> <<>>]>>
          ELSE FlatMap(Act, sections)

\* Lines 119-145: the results of one section
LegalCostsOfWindowOnly(section, confidence, ultimiDueAnni) ==
    <<[importo |-> <<>>, ultimiDueAnni |-> ultimiDueAnni,
       confidence |-> Max(confidence - 10, 0),
       reason |-> "Sezione trovata ma nessun importo estratto. Keywords: ",
       citations |-> <<MakeCitation(section, 300)>>]>>

LegalCostsOf(section, confidence, ultimiDueAnni) ==
    Let(ExtractAmounts(section.text), LAMBDA amounts :
      IF Len(amounts) > 0
        THEN [k \in 1..Len(amounts) |->
                [importo |-> <<amounts[k].value>>, ultimiDueAnni |-> ultimiDueAnni,
                 confidence |-> confidence,
                 reason |-> "Importo trovato: " \o amounts[k].raw \o ". Keywords: ",
                 citations |-> <<MakeCitation(section, 300)>>]]
        ELSE <<[importo |-> <<>>, ultimiDueAnni |-> ultimiDueAnni,
                confidence |-> Max(confidence - 10, 0),
                reason |-> "Sezione trovata ma nessun importo estratto. Keywords: ",
                citations |-> <<MakeCitation(section, 300)>>]>>)

\* extractLegalCosts, lines 93-149
ExtractLegalCostsNoSentinel(sections) == FlatMap(LAMBDA section : <<>>, sections)

ExtractLegalCosts(sections) ==
    LET Costs(section) ==
            Let(ToLowerCase(section.text), LAMBDA textLower :
              LegalCostsOf(section, SectionConfidence(section, sections),
                           \E k \in 1..Len(ULTIMI_DUE_ANNI_PATTERNS) :
                             Includes(textLower, ULTIMI_DUE_ANNI_PATTERNS[k])))
    IN  IF sections = <<>>
          THEN <<[importo |-> <<>>, ultimiDueAnni |-> FALSE,
                  confidence |-> 0,
                  reason |-> "Nessun keyword match trovato. Cerca in: oneri, spese a carico, costi, arretrati, spese condominiali.",
                  citations |-> <<>>]>>
          ELSE FlatMap(Costs, sections)

\* categories, lines 172-178, in the order of Object.entries
IRREGULARITY_CATEGORIES ==
    << <<"urbanistica", {"urbanistica", "urbanistico", "permesso di costruire", "dia", "scia", "cila"}>>,
       <<"catastale", {"catastale", "catasto", "planimetria"}>>,
       <<"edilizia", {"edilizia", "edilizio", "abuso edilizio", "opere abusive", "condono"}>>,
       <<"impiantistica", {"impianti", "impiantistica", "certificazione impianti"}>>,
       <<"agibilità", {"agibilità", "abitabilità", "certificato di agibilità"}>> >>

\* Lines 185-191
Categoria(textLower) ==
    LET hit == {k \in 1..Len(IRREGULARITY_CATEGORIES) :
                  \E kw \in IRREGULARITY_CATEGORIES[k][2] : Includes(textLower, kw)}
    IN  IF hit = {} THEN "generica"
        ELSE IRREGULARITY_CATEGORIES[CHOOSE k \in hit : \A j \in hit : k <= j][1]

\* Lines 193-198
GravitaBassaFirst(textLower) ==
    IF Includes(textLower, "lieve") \/ Includes(textLower, "minore")
         \/ Includes(textLower, "tolleranza")
      THEN "bassa"
    ELSE IF Includes(textLower, "abuso") \/ Includes(textLower, "opere abusive")
         \/ Includes(textLower, "non sanabile")
      THEN "alta"
    ELSE "media"

Gravita(textLower) ==
    IF Includes(textLower, "abuso") \/ Includes(textLower, "opere abusive")
         \/ Includes(textLower, "non sanabile")
      THEN "alta"
    ELSE IF Includes(textLower, "lieve") \/ Includes(textLower, "minore")
         \/ Includes(textLower, "tolleranza")
      THEN "bassa"
    ELSE "media"

\* Lines 200-206
Impatto(textLower) ==
    LET regolarizzabile ==
            Includes(textLower, "regolarizzabil") \/ Includes(textLower, "sanabil")
        necessitaOpere ==
            Includes(textLower, "opere") \/ Includes(textLower, "intervento")
              \/ Includes(textLower, "lavori")
    IN  IF regolarizzabile
          THEN "Regolarizzabile" \o (IF necessitaOpere THEN " (necessita opere)" ELSE "")
        ELSE IF necessitaOpere THEN "Necessita opere/intervento"
        ELSE "Da verificare"

\* extractIrregularities, lines 153-224
ExtractIrregularities(sections) ==
    LET Irregularity(section) ==
            Let(ExtractAmounts(section.text), LAMBDA amounts :
              Let(ToLowerCase(section.text), LAMBDA textLower :
                <<[categoria |-> Categoria(textLower),
                   gravita |-> Gravita(textLower),
                   impatto |-> Impatto(textLower),
                   costiEventuali |-> IF Len(amounts) > 0 THEN <<amounts[1].value>> ELSE <<>>,
                   stimaPresente |-> Len(amounts) > 0,
                   confidence |-> SectionConfidence(section, sections),
                   reason |-> "Categoria: " \o Categoria(textLower) \o ". Keywords: ",
                   citations |-> <<MakeCitation(section, 300)>>]>>))
    IN  IF sections = <<>>
          THEN <<[categoria |-> "Non rilevato",
                  gravita |-> "media",
                  impatto |-> "Da verificare",
                  costiEventuali |-> <<>>,
                  stimaPresente |-> FALSE,
                  confidence |-> 0,
                  reason |-> "Nessun keyword match trovato. Cerca in: stato legittimo, conformità urbanistica/catastale, agibilità, difformità.",
                  citations |-> <<>>]>>
          ELSE FlatMap(Irregularity, sections)

\* a.value > b.value
ValueGreater(a, b) ==
    LET Pow10(n) == IF n = 0 THEN 1 ELSE IF n = 1 THEN 10 ELSE IF n = 2 THEN 100 ELSE 1000
    IN  a.mant * Pow10(b.dec) > b.mant * Pow10(a.dec)

\* Lines 272-273: the first of the amounts sorted by descending value
PrimaryAmount(extracted) ==
    Let(extracted, LAMBDA amounts :
      LET best == {k \in 1..Len(amounts) :
                     \A j \in 1..Len(amounts) :
                       ~ValueGreater(amounts[j].value, amounts[k].value)}
      IN  IF amounts = <<>> THEN <<>>
          ELSE <<amounts[CHOOSE k \in best : \A j \in best : k <= j]>>)

\* extractExpertValue, lines 228-300, with the amounts and the confidence
ExpertValueResult(sections) ==
    LET Phrases(section) ==
            Let(ToLowerCase(section.text), LAMBDA textLower :
              <<{p \in 1..Len(VALUE_PRIORITY) : Includes(textLower, VALUE_PRIORITY[p])}>>)
        Result(best, bestSection, confidence, primaryAmount) ==
            [valore |-> IF primaryAmount # <<>> THEN <<primaryAmount[1].value>> ELSE <<>>,
             tipo |-> best.tipo,
             confidence |-> IF primaryAmount # <<>> THEN confidence
                            ELSE Max(confidence - 20, 0),
             reason |-> "Tipo: " \o best.tipo \o ". "
                          \o (IF primaryAmount # <<>>
                                THEN "Importo: " \o primaryAmount[1].raw
                                ELSE "Nessun importo trovato")
                          \o ". Keywords: ",
             citations |-> <<MakeCitation(bestSection, 300)>>]
    IN  IF sections = <<>>
          THEN [valore |-> <<>>, tipo |-> "Non rilevato",
                confidence |-> 0,
                reason |-> "Nessun keyword match trovato. Cerca in: determinazione del valore, valore di stima, prezzo base, base d'asta.",
                citations |-> <<>>]
          ELSE Let(ExtractExpertValue(FlatMap(Phrases, sections)), LAMBDA best :
                 Let(sections[best.section], LAMBDA bestSection :
                   Let(PrimaryAmount(ExtractAmounts(bestSection.text)), LAMBDA primaryAmount :
                     Result(best, bestSection, SectionConfidence(bestSection, sections),
                            primaryAmount))))

\* A field extractor is called on the candidate windows of its field.
InitFields ==
    /\ libFn \in {"extractAntecedentActs", "extractLegalCosts",
                  "extractIrregularities", "extractExpertValue"}
    /\ libArg \in FieldSections
    /\ libDone = FALSE
    /\ libRet = <<>>

CallExtractAntecedentActs ==
    /\ libFn = "extractAntecedentActs"
    /\ ~libDone
    /\ libRet' = ExtractAntecedentActs(libArg)
    /\ libDone' = TRUE
    /\ UNCHANGED <<libFn, libArg>>
    /\ UNCHANGED <<extractVars, ocrVars, routeVars, renderVars, jobVars>>

CallExtractLegalCosts ==
    /\ libFn = "extractLegalCosts"
    /\ ~libDone
    /\ libRet' = ExtractLegalCosts(libArg)
    /\ libDone' = TRUE
    /\ UNCHANGED <<libFn, libArg>>
    /\ UNCHANGED <<extractVars, ocrVars, routeVars, renderVars, jobVars>>

CallExtractIrregularities ==
    /\ libFn = "extractIrregularities"
    /\ ~libDone
    /\ libRet' = ExtractIrregularities(libArg)
    /\ libDone' = TRUE
    /\ UNCHANGED <<libFn, libArg>>
    /\ UNCHANGED <<extractVars, ocrVars, routeVars, renderVars, jobVars>>

CallExpertValueResult ==
    /\ libFn = "extractExpertValue"
    /\ ~libDone
    /\ libRet' = ExpertValueResult(libArg)
    /\ libDone' = TRUE
    /\ UNCHANGED <<libFn, libArg>>
    /\ UNCHANGED <<extractVars, ocrVars, routeVars, renderVars, jobVars>>

FieldActions ==
    \/ CallExtractAntecedentActs
    \/ CallExtractLegalCosts
    \/ CallExtractIrregularities
    \/ CallExpertValueResult

----------------------------------------------------------------------------
(* Claims about the field extractors                                       *)

FieldExtracted(fn) == libFn = fn /\ libDone

\* The not-found sentinel: confidence 0, no citation, and a reason that
\* suggests where to search.
IsSentinel(r) ==
    /\ r.confidence = 0
    /\ r.citations = <<>>
    /\ Includes(r.reason, "Cerca in:")

\* C22: given no candidate window (no keyword of the field occurs in the
\* document) an extractor returns exactly one not-found sentinel: a
\* one-element list for acts, legal costs and irregularities, a single
\* record for the expert value.
C22_NotFoundSentinel ==
    (libDone /\ libArg = <<>>) =>
      /\ libFn \in {"extractAntecedentActs", "extractLegalCosts", "extractIrregularities"} =>
           Len(libRet) = 1 /\ IsSentinel(libRet[1])
      /\ libFn = "extractExpertValue" => IsSentinel(libRet)

C22_Witness ==
    /\ FieldExtracted("extractLegalCosts")
    /\ libArg = <<>>
    /\ Len(libRet) = 1
    /\ libRet[1].confidence = 0

\* The results a legal-cost window accounts for: one per amount, or one.
ResultsOfWindow(section) == Max(1, Len(ExtractAmounts(section.text)))

RECURSIVE ResultsBefore(_, _)
ResultsBefore(sections, k) ==
    IF k = 1 THEN 0
    ELSE ResultsBefore(sections, k - 1) + ResultsOfWindow(sections[k - 1])

\* C23: for each legal-cost window there is one result per amount found in
\* it, with that amount as importo, or, when no amount is found, exactly one
\* result with the window's confidence less 0.1 and not below 0; every
\* result has ultimiDueAnni exactly when the window contains "ultimi due
\* anni" or "ultimi 2 anni"; the window "Spese condominiali arretrate ultimi
\* due anni: € 3.450,00" gives importo 3450 with ultimiDueAnni.
C23_OneResultPerAmount ==
    (FieldExtracted("extractLegalCosts") /\ libArg # <<>>) =>
      /\ Len(libRet) = ResultsBefore(libArg, Len(libArg) + 1)
      /\ \A k \in 1..Len(libArg) :
           LET section == libArg[k]
               amounts == ExtractAmounts(section.text)
               first == ResultsBefore(libArg, k)
               lower == ToLowerCase(section.text)
               recent == Includes(lower, "ultimi due anni") \/ Includes(lower, "ultimi 2 anni")
           IN  /\ \A j \in 1..Len(amounts) : libRet[first + j].importo = <<amounts[j].value>>
               /\ amounts = <<>> =>
                    /\ libRet[first + 1].importo = <<>>
                    /\ libRet[first + 1].confidence
                         = Max(SectionConfidence(section, libArg) - 10, 0)
               /\ \A j \in 1..ResultsOfWindow(section) :
                    libRet[first + j].ultimiDueAnni = recent
               /\ section.text = "Spese condominiali arretrate ultimi due anni: € 3.450,00" =>
                    /\ libRet[first + 1].importo = <<[nan |-> FALSE, mant |-> 3450, dec |-> 0]>>
                    /\ libRet[first + 1].ultimiDueAnni

\* A window with two amounts gave two results and one without amounts gave
\* one, penalised.
C23_Witness ==
    /\ FieldExtracted("extractLegalCosts")
    /\ Len(libArg) = 2
    /\ libArg[1].text = "Oneri ultimi 2 anni € 1.000,00 oltre € 250,50 per lavori"
    /\ libArg[2].text = "spese a carico"
    /\ Len(libRet) = 3
    /\ libRet[2].importo = <<[nan |-> FALSE, mant |-> 2505, dec |-> 1]>>
    /\ libRet[2].ultimiDueAnni
    /\ libRet[3].importo = <<>>
    /\ ~libRet[3].ultimiDueAnni

C27_FoundMeansPositive ==
    (libDone /\ libArg # <<>>) =>
      /\ libFn \in {"extractAntecedentActs", "extractLegalCosts", "extractIrregularities"} =>
           \A k \in 1..Len(libRet) : libRet[k].confidence > 0
      /\ libFn = "extractExpertValue" => libRet.confidence > 0

\* C30 as stated: a window that contains "non sanabile", no other "sanabil"
\* and no "regolarizzabil" is not reported as 'Regolarizzabile'.
C30_NonSanabileNotRegularisable ==
    (FieldExtracted("extractIrregularities") /\ libArg # <<>>) =>
      \A k \in 1..Len(libArg) :
        LET lower == ToLowerCase(libArg[k].text)
            at == {i \in 1..Len(lower) : SubSeq(lower, i, Min(i + 6, Len(lower))) = "sanabil"}
            negated == {i \in at : i > 4 /\ SubSeq(lower, i - 4, i + 7) = "non sanabile"}
        IN  (negated # {} /\ at = negated /\ ~Includes(lower, "regolarizzabil")) =>
              SubSeq(libRet[k].impatto, 1, Min(15, Len(libRet[k].impatto))) # "Regolarizzabile"

----------------------------------------------------------------------------
(* date-extractor.ts: extractDates                                         *)

\* MONTHS_IT, lines 12-16
MONTHS_IT ==
    << <<"gennaio", "01">>, <<"febbraio", "02">>, <<"marzo", "03">>, <<"aprile", "04">>,
       <<"maggio", "05">>, <<"giugno", "06">>, <<"luglio", "07">>, <<"agosto", "08">>,
       <<"settembre", "09">>, <<"ottobre", "10">>, <<"novembre", "11">>, <<"dicembre", "12">> >>

\* s.padStart(2, '0')
PadStart2(s) == IF Len(s) < 2 THEN "0" \o s ELSE s

\* DATE_NUMERIC, line 19, at position i: one or two digits, a separator, one
\* or two digits, a separator, four digits.  A digit is no separator, so at
\* most one split matches.
DateNumericAt(t, i) ==
    { [index |-> i, end |-> i + p[1] + p[2] + 6,
       day |-> SubSeq(t, i, i + p[1] - 1),
       month |-> SubSeq(t, i + p[1] + 1, i + p[1] + p[2]),
       year |-> SubSeq(t, i + p[1] + p[2] + 2, i + p[1] + p[2] + 5)] :
      p \in {p \in (1..2) \X (1..2) :
               /\ DigitsAt(t, i, p[1])
               /\ CharAt(t, i + p[1]) \in {"/", "-", "."}
               /\ DigitsAt(t, i + p[1] + 1, p[2])
               /\ CharAt(t, i + p[1] + p[2] + 1) \in {"/", "-", "."}
               /\ DigitsAt(t, i + p[1] + p[2] + 2, 4)} }

\* DATE_TEXTUAL, lines 22-25, at position i: one or two digits, white space,
\* a month name in any case, white space, four digits
DateTextualAt(t, i) ==
    { [index |-> i, end |-> p[3] + 4,
       day |-> SubSeq(t, i, i + p[1] - 1),
       month |-> SubSeq(t, p[2], p[2] + Len(MONTHS_IT[p[4]][1]) - 1),
       year |-> SubSeq(t, p[3], p[3] + 3)] :
      p \in UNION { UNION { { <<d, SkipSpaces(t, i + d),
                               SkipSpaces(t, SkipSpaces(t, i + d) + Len(MONTHS_IT[m][1])), m>> }
                            : m \in {m \in 1..Len(MONTHS_IT) :
                                       LET a == SkipSpaces(t, i + d)
                                           b == a + Len(MONTHS_IT[m][1])
                                       IN  /\ ToLowerCase(Slice1(t, a, b - 1)) = MONTHS_IT[m][1]
                                           /\ IsSpace(CharAt(t, b))
                                           /\ DigitsAt(t, SkipSpaces(t, b), 4)} }
                    : d \in {d \in 1..2 : DigitsAt(t, i, d) /\ IsSpace(CharAt(t, i + d))} } }

\* Lines 33-45: a numeric match is kept when its month is in 1..12
RECURSIVE NumericDates(_)
NumericDates(ms) ==
    IF ms = <<>> THEN <<>>
    ELSE LET m == Head(ms)
             day == PadStart2(m.day)
             month == PadStart2(m.month)
             monthNum == DigitsVal(CharSeq(month))
         IN  (IF monthNum >= 1 /\ monthNum <= 12
                THEN <<[normalized |-> m.year \o "-" \o month \o "-" \o day,
                        startIndex |-> m.index - 1]>>
                ELSE <<>>)
               \o NumericDates(Tail(ms))

\* Lines 49-61: a textual match is kept when its month name is in the table
RECURSIVE TextualDates(_)
TextualDates(ms) ==
    IF ms = <<>> THEN <<>>
    ELSE LET m == Head(ms)
             monthName == ToLowerCase(m.month)
             found == {k \in 1..Len(MONTHS_IT) : MONTHS_IT[k][1] = monthName}
         IN  (IF found # {}
                THEN <<[normalized |-> m.year \o "-" \o MONTHS_IT[CHOOSE k \in found : TRUE][2]
                                         \o "-" \o PadStart2(m.day),
                        startIndex |-> m.index - 1]>>
                ELSE <<>>)
               \o TextualDates(Tail(ms))

\* extractDates, lines 27-64
ExtractDates(text) ==
    Let(text, LAMBDA t :
      Let(NextMatches(UNION {DateNumericAt(t, i) : i \in 1..Len(t)}, 1), LAMBDA numeric :
        Let(NextMatches(UNION {DateTextualAt(t, i) : i \in 1..Len(t)}, 1), LAMBDA textual :
          Let(NumericDates(numeric) \o TextualDates(textual), LAMBDA results :
            SortByStartIndex(results)))))

\* Numeric dates with days and months inside and outside their ranges.
NumericDateStrings ==
    {d \o s \o m \o s \o "2020" : d \in {"0", "5", "15", "31", "45"}, s \in {"/", "-", "."},
                                  m \in {"0", "3", "03", "12", "13"}}
      \cup {"10/05-2020"}

TextualDateStrings ==
    {d \o " " \o m \o " 2022" : d \in {"3", "15"}, m \in {"gennaio", "Marzo", "DICEMBRE"}}

\* Texts without a date, with one date, and with a date of each form in
\* both orders.
DateTexts ==
    {"Nessuna data presente nel testo."}
      \cup {"Atto del " \o n \o " presso il notaio." : n \in NumericDateStrings}
      \cup {"Il " \o t \o " il sopralluogo." : t \in TextualDateStrings}
      \cup {"Atto del " \o n \o " e modifica del " \o t \o "." :
              n \in NumericDateStrings, t \in TextualDateStrings}
      \cup {"Il " \o t \o " e atto del " \o n : n \in NumericDateStrings, t \in TextualDateStrings}

InitDates ==
    /\ libFn = "extractDates"
    /\ libArg \in DateTexts
    /\ libDone = FALSE
    /\ libRet = <<>>

CallExtractDates ==
    /\ libFn = "extractDates"
    /\ ~libDone
    /\ libRet' = ExtractDates(libArg)
    /\ libDone' = TRUE
    /\ UNCHANGED <<libFn, libArg>>
    /\ UNCHANGED <<extractVars, ocrVars, routeVars, renderVars, jobVars>>

----------------------------------------------------------------------------
(* Claims about extractDates                                               *)

NumberAt(s, from, to) == DigitsVal(CharSeq(SubSeq(s, from, to)))

\* yyyy-mm-dd with a month of the year and a day of the month
IsIsoDate(s) ==
    /\ Len(s) = 10
    /\ \A i \in {1, 2, 3, 4, 6, 7, 9, 10} : IsDigit(SubSeq(s, i, i))
    /\ SubSeq(s, 5, 5) = "-" /\ SubSeq(s, 8, 8) = "-"
    /\ NumberAt(s, 6, 7) \in 1..12
    /\ NumberAt(s, 9, 10) \in 1..31

\* C26 as stated: every returned date has its month in 1..12 and a
\* normalized value that is an ISO yyyy-mm-dd date, and the dates of both
\* forms come merged in ascending order of position.
C26_IsoDatesSorted ==
    (libFn = "extractDates" /\ libDone) =>
      /\ \A k \in 1..Len(libRet) : IsIsoDate(libRet[k].normalized)
      /\ \A k \in 1..(Len(libRet) - 1) : libRet[k].startIndex < libRet[k + 1].startIndex

----------------------------------------------------------------------------
(* job-queue.ts (JobQueue) and pipeline.ts (runPipeline)                   *)
(*                                                                         *)
(* jobQueue is a singleton; runPipeline is an async function, so several   *)
(* invocations interleave at their awaits.  An action is the code between  *)
(* two awaits of one invocation.                                           *)

DocumentIds == {"doc1", "doc2"}

Runs == 1..MaxRuns

\* create(id): a fresh pending job replaces whatever the map held for id.
Create(js, id) ==
    [k \in (DOMAIN js) \cup {id} |->
        IF k = id THEN [id |-> id, status |-> "pending", progress |-> 0, error |-> <<>>]
                  ELSE js[k]]

\* updateProgress(id, progress): no check of the job's current status.
UpdateProgress(js, id, progress) ==
    IF id \in DOMAIN js
    THEN [js EXCEPT ![id].progress = progress, ![id].status = "processing"]
    ELSE js

\* complete(id)
Complete(js, id) ==
    IF id \in DOMAIN js
    THEN [js EXCEPT ![id].status = "completed", ![id].progress = 100]
    ELSE js

\* fail(id, error): progress is left as it was.
Fail(js, id, error) ==
    IF id \in DOMAIN js
    THEN [js EXCEPT ![id].status = "error", ![id].error = <<error>>]
    ELSE js

\* remove(id); runPipeline never calls it.
Remove(js, id) == [k \in (DOMAIN js) \ {id} |-> js[k]]

\* The text path of runPipeline, lines 174-219: the four field extractors are
\* synchronous, so the five progress updates happen without an await between.
TextPathProgress(js, id) ==
    UpdateProgress(UpdateProgress(UpdateProgress(UpdateProgress(UpdateProgress(
        js, id, 30), id, 45), id, 55), id, 65), id, 75)

InitPipeline ==
    /\ jobs = <<>>
    /\ pPc = [r \in Runs |-> "idle"]
    /\ pDoc = [r \in Runs |-> "none"]
    /\ pHasKey \in BOOLEAN

\* Lines 104-117: create, updateProgress(10), then await fs.readFile.
PipelineStart(r, documentId) ==
    /\ pPc[r] = "idle"
    /\ jobs' = UpdateProgress(Create(jobs, documentId), documentId, 10)
    /\ pDoc' = [pDoc EXCEPT ![r] = documentId]
    /\ pPc' = [pPc EXCEPT ![r] = "parsing"]
    /\ UNCHANGED pHasKey
    /\ UNCHANGED <<extractVars, ocrVars, routeVars, renderVars, libVars>>

\* Lines 117-240 up to the next await: readFile, parsePdf and the document
\* update have resolved; isLikelyScanned and the API key choose the path.
PipelineParsed(r) ==
    /\ pPc[r] = "parsing"
    /\ \E isScanned \in BOOLEAN :
         IF isScanned /\ pHasKey
         THEN /\ jobs' = UpdateProgress(jobs, pDoc[r], 20)
              /\ pPc' = [pPc EXCEPT ![r] = "rendering"]
         ELSE IF isScanned
         THEN /\ jobs' = jobs
              /\ pPc' = [pPc EXCEPT ![r] = "scanError"]
         ELSE IF pHasKey
         THEN /\ jobs' = TextPathProgress(jobs, pDoc[r])
              /\ pPc' = [pPc EXCEPT ![r] = "summarising"]
         ELSE /\ jobs' = UpdateProgress(TextPathProgress(jobs, pDoc[r]), pDoc[r], 90)
              /\ pPc' = [pPc EXCEPT ![r] = "saving"]
    /\ UNCHANGED <<pDoc, pHasKey>>
    /\ UNCHANGED <<extractVars, ocrVars, routeVars, renderVars, libVars>>

\* Lines 142-148: pdfToImages has resolved.
PipelineRendered(r) ==
    /\ pPc[r] = "rendering"
    /\ jobs' = UpdateProgress(jobs, pDoc[r], 40)
    /\ pPc' = [pPc EXCEPT ![r] = "vision"]
    /\ UNCHANGED <<pDoc, pHasKey>>
    /\ UNCHANGED <<extractVars, ocrVars, routeVars, renderVars, libVars>>

\* Lines 148-162 and 225-238: extractWithVision has resolved, or
\* generateSummary has resolved or was caught by the inner try.
PipelineFieldsReady(r) ==
    /\ pPc[r] \in {"vision", "summarising"}
    /\ jobs' = UpdateProgress(jobs, pDoc[r], 90)
    /\ pPc' = [pPc EXCEPT ![r] = "saving"]
    /\ UNCHANGED <<pDoc, pHasKey>>
    /\ UNCHANGED <<extractVars, ocrVars, routeVars, renderVars, libVars>>

\* Lines 249-282: the upsert and the document update have resolved.
PipelineSaved(r) ==
    /\ pPc[r] = "saving"
    /\ jobs' = Complete(jobs, pDoc[r])
    /\ pPc' = [pPc EXCEPT ![r] = "returned"]
    /\ UNCHANGED <<pDoc, pHasKey>>
    /\ UNCHANGED <<extractVars, ocrVars, routeVars, renderVars, libVars>>

\* Lines 164-172: scanned document and no API key.
PipelineScanFailed(r) ==
    /\ pPc[r] = "scanError"
    /\ jobs' = Fail(jobs, pDoc[r], "scanned")
    /\ pPc' = [pPc EXCEPT ![r] = "returned"]
    /\ UNCHANGED <<pDoc, pHasKey>>
    /\ UNCHANGED <<extractVars, ocrVars, routeVars, renderVars, libVars>>

\* Line 284: an awaited call of the try block rejects.  generateSummary is
\* inside its own try, so it cannot bring the run here.
PipelineThrow(r) ==
    /\ pPc[r] \in {"parsing", "rendering", "vision", "saving", "scanError"}
    /\ pPc' = [pPc EXCEPT ![r] = "catching"]
    /\ UNCHANGED <<jobs, pDoc, pHasKey>>
    /\ UNCHANGED <<extractVars, ocrVars, routeVars, renderVars, libVars>>

\* Lines 285-313: the catch block, after its own awaits.
PipelineCaught(r) ==
    /\ pPc[r] = "catching"
    /\ jobs' = Fail(jobs, pDoc[r], "message")
    /\ pPc' = [pPc EXCEPT ![r] = "returned"]
    /\ UNCHANGED <<pDoc, pHasKey>>
    /\ UNCHANGED <<extractVars, ocrVars, routeVars, renderVars, libVars>>

RunPipeline ==
    \E r \in Runs :
        \/ \E documentId \in DocumentIds : PipelineStart(r, documentId)
        \/ PipelineParsed(r)
        \/ PipelineRendered(r)
        \/ PipelineFieldsReady(r)
        \/ PipelineSaved(r)
        \/ PipelineScanFailed(r)
        \/ PipelineThrow(r)
        \/ PipelineCaught(r)

\* C29 as stated: once a job is 'completed' or 'error' its status never
\* changes again and its progress never decreases, and a job that is
\* 'completed' has progress 100.
C29_TerminalJobsStay ==
    /\ [](\A id \in DOMAIN jobs : jobs[id].status = "completed" => jobs[id].progress = 100)
    /\ [][\A id \in DOMAIN jobs :
            jobs[id].status \in {"completed", "error"} =>
              /\ id \in DOMAIN jobs'
              /\ jobs'[id].status = jobs[id].status
              /\ jobs'[id].progress >= jobs[id].progress]_vars

----------------------------------------------------------------------------
(* Specifications                                                          *)

IdleExtract ==
    /\ pdfParseLoaded = TRUE
    /\ pdfjsLoaded = TRUE
    /\ buffer = <<>>
    /\ ePc = "idle"
    /\ errors = <<>>
    /\ eText1 = NoResult
    /\ eCalls = <<>>
    /\ eResult = NoResult

IdleOcr ==
    /\ oPages = <<>>
    /\ oPc = "idle"
    /\ oResults = <<>>
    /\ toProcess = <<>>
    /\ oI = 0
    /\ oAttempt = 0
    /\ oSleepMs = 0
    /\ oErr = NoErr
    /\ oRequest = NoRequest
    /\ oInvocations = 0
    /\ oSent = {}
    /\ oRaw = <<>>

IdleRoute ==
    /\ hasApiKey = TRUE
    /\ rForm = "file"
    /\ rFileSize = 0
    /\ rSdk = [hasDelete |-> TRUE, hasDel |-> TRUE]
    /\ rPc = "idle"
    /\ rUploaded = FALSE
    /\ rAborted = FALSE
    /\ rTimer = FALSE
    /\ rAttempt = 0
    /\ rSleepMs = 0
    /\ rInvocations = 0
    /\ rRequest = NoRouteRequest
    /\ rErr = NoRouteErr
    /\ rRawText = "none"
    /\ rDeleted = 0
    /\ rResponse = NoResponse

IdleRender ==
    /\ dOpts = [given |-> FALSE, pageList |-> <<>>, maxPages |-> 1]
    /\ dPc = "idle"
    /\ dDir = FALSE
    /\ dFiles = {}
    /\ dTotal = 0
    /\ dRequested = <<>>
    /\ dIdx = 1
    /\ dPages = <<>>

IdleLib ==
    /\ libFn = "none"
    /\ libArg = <<>>
    /\ libDone = FALSE
    /\ libRet = <<>>

\* The other components at rest while a library function is called.
IdleJobs ==
    /\ jobs = <<>>
    /\ pPc = <<>>
    /\ pDoc = <<>>
    /\ pHasKey = FALSE

IdleComponents == IdleExtract /\ IdleOcr /\ IdleRoute /\ IdleRender /\ IdleJobs

InitExtractOnly == InitExtract /\ IdleOcr /\ IdleRoute /\ IdleRender /\ IdleLib /\ IdleJobs

SpecExtract == InitExtractOnly /\ [][ExtractActions]_vars

InitOcrOnly == InitOcr /\ IdleExtract /\ IdleRoute /\ IdleRender /\ IdleLib /\ IdleJobs

SpecOcr == InitOcrOnly /\ [][OcrActions]_vars

InitRouteOnly == InitRoute /\ IdleExtract /\ IdleOcr /\ IdleRender /\ IdleLib /\ IdleJobs

SpecRoute == InitRouteOnly /\ [][RouteActions]_vars

InitRenderOnly == InitRender /\ IdleExtract /\ IdleOcr /\ IdleRoute /\ IdleLib /\ IdleJobs

SpecRender == InitRenderOnly /\ [][RenderActions]_vars

\* renderPdfPages runs to its end once called; nothing schedules
\* cleanupTempDir.
SpecRenderFair == SpecRender /\ WF_vars(RenderSteps)

InitQualityOnly == InitQuality /\ IdleComponents

SpecQuality == InitQualityOnly /\ [][CallCheckTextQuality]_vars


InitSectionsOnly == InitSections /\ IdleComponents

SpecSections == InitSectionsOnly /\ [][CallFindSectionCandidates]_vars


InitExpertValueOnly == InitExpertValue /\ IdleComponents

SpecExpertValue == InitExpertValueOnly /\ [][CallExtractExpertValue]_vars


InitAmountOnly == InitAmount /\ IdleComponents

SpecAmount == InitAmountOnly /\ [][CallNormalizeAmount]_vars


InitConfidenceOnly == InitConfidence /\ IdleComponents

SpecConfidence == InitConfidenceOnly /\ [][CallCalculateConfidence]_vars


InitFieldsOnly == InitFields /\ IdleComponents

SpecFields == InitFieldsOnly /\ [][FieldActions]_vars


InitDatesOnly == InitDates /\ IdleComponents

SpecDates == InitDatesOnly /\ [][CallExtractDates]_vars


InitPipelineOnly == InitPipeline /\ IdleExtract /\ IdleOcr /\ IdleRoute /\ IdleRender /\ IdleLib

\* Overlapping runPipeline invocations on the one jobQueue.
SpecPipeline == InitPipelineOnly /\ [][RunPipeline]_vars

============================================================================
